---- MODULE Spec2Model ----
(***************************************************************************)
(* Verification model of the review bridge: the diff chunker, the session  *)
(* store, the reviewer client (runReview and the multi-chunk loops), the   *)
(* session tracker, the tool-call handlers, the input reader of the CLI   *)
(* and the CLI command review-precommit.                                   *)
(*                                                                         *)
(* Strings of diffs are sequences of symbols.  A symbol stands for a fixed *)
(* piece of text, and CharLen gives its length in characters:              *)
(*   "D" = the 11 characters `diff --git `   "H" = the 3 characters `@@ `  *)
(*   "N" = a newline   "x" = any other non-blank character                 *)
(*   "B" = a block of 1200 non-blank characters without a newline          *)
(***************************************************************************)
EXTENDS Integers, Sequences, FiniteSets, TLC

VARIABLES
    cDiff,      \* chunker call: the diff argument
    cMax,       \* chunker call: the maxTokens argument
    cChunks,    \* chunker call: the returned array of chunks
    cPc,        \* chunker call: "call" before chunkDiff has run, "done" after
    sessions,   \* the sessions table: session_id -> [status, created_at, completed_at]
    reviews,    \* the reviews table: the rows in insertion order
    clock,      \* datetime('now'), in seconds
    sLast,      \* the last direct call of a session-store operation and its result
    db,         \* whether the handlers were registered with a database
    req,        \* the tool-call requests in flight: position, arguments, tracker state
    ret,        \* the response a handler has just returned
    calls,      \* number of tool-call requests received so far
    kIn,        \* client call: kind, input session_id, diff, context, max_chunk_tokens
    kPc,        \* client call: "call", "acquire", "turn" or "done"
    kChunks,    \* client call: the chunks of the diff
    kI,         \* client call: index of the chunk under review
    kSid,       \* runReview: the sessionId parameter
    kThread,    \* runReview: the thread (how it was acquired, as which SDK call)
    kAttempt,   \* runReview: the loop counter attempt
    kElapsed,   \* runReview: seconds since AbortSignal.timeout was created
    kLastError, \* runReview: lastError
    kTurn,      \* runReview: how the last turn ended
    kRun,       \* the result of the last runReview that returned
    kLog,       \* the calls made to the SDK, in order
    kResults,   \* the session ids of the chunk results so far
    kResult,    \* the result of the client call
    mKind,      \* merge: "code" or "precommit"
    mIn,        \* merge: chunkResults
    mOut,       \* merge: the merged result
    mPc,        \* merge: "review" while chunks are reviewed, then "done"
    cliPc,      \* CLI review-precommit: position of the action
    cliOpts,    \* CLI review-precommit: the parsed options
    cliDiff,    \* CLI review-precommit: explicitDiff
    cliResult,  \* CLI review-precommit: what the invocation obtained
    cliExits,   \* CLI review-precommit: the exit codes of the invocation, in order
    cliErr,     \* CLI review-precommit: the lines written to stderr
    cliRuns,    \* number of CLI invocations so far
    stdinConsumed,  \* stdin.ts: the module variable stdinConsumed
    rd,         \* the readInput calls: source, position, chunks received, result
    rLog        \* readInput calls and resetStdinGuard calls, in order

chunkVars == <<cDiff, cMax, cChunks, cPc>>
storeVars == <<sessions, reviews, clock, sLast>>
handlerVars == <<db, req, ret, calls>>
clientVars == <<kIn, kPc, kChunks, kI, kSid, kThread, kAttempt, kElapsed, kLastError,
                kTurn, kRun, kLog, kResults, kResult>>

mergeVars == <<mKind, mIn, mOut, mPc>>
cliVars == <<cliPc, cliOpts, cliDiff, cliResult, cliExits, cliErr, cliRuns>>
stdinVars == <<stdinConsumed, rd, rLog>>

vars == <<chunkVars, storeVars, handlerVars, clientVars, mergeVars, cliVars, stdinVars>>

----------------------------------------------------------------------------
(* Bounds of the model *)

MaxDiffLen == 7     \* longest diff, in symbols, the chunker is applied to
MaxTokens == 5      \* largest maxTokens the chunker is applied to
MaxClock == 2       \* the clock stops advancing at this value
MaxCalls == 2       \* tool-call requests received in one behaviour
MaxTurnTime == 2    \* longest time, in seconds, a reviewer turn may need
MaxChunks == 3      \* chunk results merged into one result
MaxItems == 3       \* findings (or blockers and warnings) over all chunk results

----------------------------------------------------------------------------
(* Strings *)

Symbols == {"D", "H", "N", "x", "B"}

DiffHeaderLen == 11
HunkMarkerLen == 3
BlockLen == 1200

CharLen(c) ==
    CASE c = "D" -> DiffHeaderLen
      [] c = "H" -> HunkMarkerLen
      [] c = "B" -> BlockLen
      [] OTHER -> 1

RECURSIVE StrLen(_)
StrLen(s) == IF s = <<>> THEN 0 ELSE CharLen(Head(s)) + StrLen(Tail(s))

\* String.prototype.trim() leaves nothing: every character is white space
IsBlank(s) == \A i \in 1..Len(s) : s[i] = "N"

\* a chunker that keeps the trailing newline of every section
StripNewlineKept(s) == s

\* s.replace(/\n$/, ''): one trailing newline is removed
StripNewline(s) ==
    IF Len(s) > 0 /\ s[Len(s)] = "N" THEN SubSeq(s, 1, Len(s) - 1) ELSE s

\* the positions where /^<sym>/gm matches: at the start or right after a newline
LineStarts(s, sym) ==
    {i \in 1..Len(s) : s[i] = sym /\ (i = 1 \/ s[i - 1] = "N")}

RECURSIVE SortedSeq(_)
SortedSeq(S) ==
    IF S = {} THEN <<>>
    ELSE LET m == CHOOSE a \in S : \A b \in S : a <= b
         IN <<m>> \o SortedSeq(S \ {m})

\* Array.prototype.join('\n')
RECURSIVE JoinNewline(_)
JoinNewline(ss) ==
    IF ss = <<>> THEN <<>>
    ELSE IF Len(ss) = 1 THEN ss[1]
    ELSE ss[1] \o <<"N">> \o JoinNewline(Tail(ss))

RECURSIVE Flatten(_)
Flatten(ss) == IF ss = <<>> THEN <<>> ELSE Head(ss) \o Flatten(Tail(ss))

StartsWith(s, sym) == Len(s) > 0 /\ s[1] = sym

\* the sequences over S of length at most n
RECURSIVE SeqsUpTo(_, _)
SeqsUpTo(S, n) ==
    IF n = 0 THEN {<<>>}
    ELSE LET shorter == SeqsUpTo(S, n - 1)
         IN shorter \cup {Append(s, c) : s \in {t \in shorter : Len(t) = n - 1}, c \in S}

----------------------------------------------------------------------------
(* The diff chunker *)

estimateTokens(text) == (StrLen(text) + 3) \div 4

\* the slices [indices[i], indices[i+1]) of s, each without one trailing newline
Sections(s, indices) ==
    [i \in 1..Len(indices) |->
        StripNewline(SubSeq(s, indices[i],
            IF i + 1 <= Len(indices) THEN indices[i + 1] - 1 ELSE Len(s)))]

splitByFileHeaders(diff) ==
    LET indices == SortedSeq(LineStarts(diff, "D"))
    IN IF Len(indices) = 0 THEN <<diff>> ELSE Sections(diff, indices)

\* the greedy loop of splitByHunks over hunks[i..], prepending the header
RECURSIVE PackHunks(_, _, _, _, _, _)
PackHunks(hunks, i, currentHunks, chunks, header, maxTokens) ==
    IF i > Len(hunks)
    THEN IF currentHunks # <<>>
         THEN Append(chunks, header \o <<"N">> \o currentHunks)
         ELSE chunks
    ELSE LET hunk == hunks[i]
             piece == IF currentHunks # <<>>
                      THEN currentHunks \o <<"N">> \o hunk ELSE hunk
             candidate == header \o <<"N">> \o piece
         IN IF currentHunks # <<>> /\ estimateTokens(candidate) > maxTokens
            THEN PackHunks(hunks, i + 1, hunk,
                           Append(chunks, header \o <<"N">> \o currentHunks),
                           header, maxTokens)
            ELSE PackHunks(hunks, i + 1, piece, chunks, header, maxTokens)

\* a hunk splitter that puts the file header on its first chunk only
splitByHunksHeaderOnce(fileDiff, maxTokens) ==
    LET indices == SortedSeq(LineStarts(fileDiff, "H"))
    IN IF Len(indices) = 0 THEN <<fileDiff>>
       ELSE LET header == StripNewline(SubSeq(fileDiff, 1, indices[1] - 1))
                hunks == Sections(fileDiff, indices)
                packed == PackHunks(hunks, 1, <<>>, <<>>, header, maxTokens)
            IN IF Len(hunks) <= 1 THEN <<fileDiff>>
               ELSE [i \in 1..Len(packed) |->
                        IF i = 1 THEN packed[i]
                        ELSE SubSeq(packed[i], Len(header) + 2, Len(packed[i]))]

splitByHunks(fileDiff, maxTokens) ==
    LET indices == SortedSeq(LineStarts(fileDiff, "H"))
    IN IF Len(indices) = 0 THEN <<fileDiff>>
       ELSE LET header == StripNewline(SubSeq(fileDiff, 1, indices[1] - 1))
                hunks == Sections(fileDiff, indices)
            IN IF Len(hunks) <= 1 THEN <<fileDiff>>
               ELSE PackHunks(hunks, 1, <<>>, <<>>, header, maxTokens)

\* the pieces of chunkDiff: oversized files expanded into hunk-level pieces
RECURSIVE ExpandFiles(_, _, _)
ExpandFiles(files, i, maxTokens) ==
    IF i > Len(files) THEN <<>>
    ELSE (IF estimateTokens(files[i]) > maxTokens
          THEN splitByHunks(files[i], maxTokens)
          ELSE <<files[i]>>) \o ExpandFiles(files, i + 1, maxTokens)

\* the greedy loop of chunkDiff over pieces[i..]
RECURSIVE PackPieces(_, _, _, _, _)
PackPieces(pieces, i, current, chunks, maxTokens) ==
    IF i > Len(pieces)
    THEN IF current # <<>> THEN Append(chunks, current) ELSE chunks
    ELSE LET piece == pieces[i]
             combined == IF current # <<>>
                         THEN current \o <<"N">> \o piece ELSE piece
         IN IF current # <<>> /\ estimateTokens(combined) > maxTokens
            THEN PackPieces(pieces, i + 1, piece, Append(chunks, current), maxTokens)
            ELSE PackPieces(pieces, i + 1, combined, chunks, maxTokens)

chunkDiff(diff, maxTokens) ==
    IF IsBlank(diff) THEN <<>>
    ELSE IF maxTokens <= 0 THEN <<diff>>
    ELSE IF estimateTokens(diff) <= maxTokens THEN <<diff>>
    ELSE LET files == splitByFileHeaders(diff)
             pieces == ExpandFiles(files, 1, maxTokens)
         IN IF Len(pieces) <= 1 THEN <<diff>>
            ELSE PackPieces(pieces, 1, <<>>, <<>>, maxTokens)

ChunkIdle ==
    /\ cDiff = <<>>
    /\ cMax = 0
    /\ cChunks = <<>>
    /\ cPc = "idle"

ClientIdle ==
    /\ kIn = "none"
    /\ kPc = "idle"
    /\ kChunks = <<>>
    /\ kI = 0
    /\ kSid = "none"
    /\ kThread = "none"
    /\ kAttempt = 0
    /\ kElapsed = 0
    /\ kLastError = "none"
    /\ kTurn = "none"
    /\ kRun = "none"
    /\ kLog = <<>>
    /\ kResults = <<>>
    /\ kResult = "none"

MergeIdle ==
    /\ mKind = "none"
    /\ mIn = <<>>
    /\ mOut = "none"
    /\ mPc = "idle"

CliIdle ==
    /\ cliPc = "idle"
    /\ cliOpts = "none"
    /\ cliDiff = "none"
    /\ cliResult = "none"
    /\ cliExits = <<>>
    /\ cliErr = <<>>
    /\ cliRuns = 0

StdinIdle ==
    /\ stdinConsumed = FALSE
    /\ rd = <<>>
    /\ rLog = <<>>

----------------------------------------------------------------------------
(* The session store and the review log *)

Ids == {"", "a", "b"}       \* session ids; the empty string is a string too
Undef == "<undefined>"      \* JavaScript's undefined (an absent optional argument)
Null == <<>>                \* SQL NULL in completed_at; a timestamp t is <<t>>

Truthy(v) == v # Undef /\ v # ""

HasRow(tbl, id) == id \in DOMAIN tbl

NewRow(now) == [status |-> "in_progress", created_at |-> now, completed_at |-> Null]

\* a lookup that puts the row it finds back in progress
getOrCreateSessionReactivates(tbl, id, now) ==
    IF HasRow(tbl, id)
    THEN [tbl EXCEPT ![id].status = "in_progress", ![id].completed_at = Null]
    ELSE tbl @@ (id :> NewRow(now))

\* SELECT ... WHERE session_id = ?; INSERT INTO sessions (session_id) VALUES (?)
getOrCreateSession(tbl, id, now) ==
    IF HasRow(tbl, id) THEN tbl ELSE tbl @@ (id :> NewRow(now))

\* an upsert that forgets to clear completed_at
activateSessionKeepsCompletedAt(tbl, id, now) ==
    IF HasRow(tbl, id)
    THEN [tbl EXCEPT ![id].status = "in_progress"]
    ELSE tbl @@ (id :> NewRow(now))

\* an insert that leaves an existing row as it is
activateSessionInsertsOnly(tbl, id, now) ==
    IF HasRow(tbl, id) THEN tbl ELSE tbl @@ (id :> NewRow(now))

\* an upsert that replaces the row
activateSessionReplacesRow(tbl, id, now) ==
    IF HasRow(tbl, id)
    THEN [tbl EXCEPT ![id] = NewRow(now)]
    ELSE tbl @@ (id :> NewRow(now))

\* INSERT ... ON CONFLICT(session_id) DO UPDATE SET status = 'in_progress',
\* completed_at = NULL
activateSession(tbl, id, now) ==
    IF HasRow(tbl, id)
    THEN [tbl EXCEPT ![id].status = "in_progress", ![id].completed_at = Null]
    ELSE tbl @@ (id :> NewRow(now))

\* UPDATE sessions SET status = 'completed', completed_at = datetime('now') WHERE ...
markSessionCompleted(tbl, id, now) ==
    IF HasRow(tbl, id)
    THEN [tbl EXCEPT ![id].status = "completed", ![id].completed_at = <<now>>]
    ELSE tbl

\* an update that inserts the row it does not find
markSessionFailedUpserts(tbl, id, now) ==
    IF HasRow(tbl, id)
    THEN [tbl EXCEPT ![id].status = "failed", ![id].completed_at = <<now>>]
    ELSE tbl @@ (id :> [status |-> "failed", created_at |-> now,
                        completed_at |-> <<now>>])

\* UPDATE sessions SET status = 'failed', completed_at = datetime('now') WHERE ...
markSessionFailed(tbl, id, now) ==
    IF HasRow(tbl, id)
    THEN [tbl EXCEPT ![id].status = "failed", ![id].completed_at = <<now>>]
    ELSE tbl

\* INSERT INTO reviews (session_id, type, ...)
saveReview(log, input) == Append(log, input)

NoCall == [op |-> "none", id |-> Undef, ret |-> "none"]

StoreEmpty ==
    /\ sessions = <<>>
    /\ reviews = <<>>
    /\ clock = 0
    /\ sLast = NoCall

\* time passes: datetime('now') does not go back
Tick ==
    /\ clock < MaxClock
    /\ clock' = clock + 1
    /\ UNCHANGED <<sessions, reviews, sLast, chunkVars, handlerVars, clientVars, mergeVars, cliVars, stdinVars>>

StoreGetOrCreate ==
    \E id \in Ids :
        /\ sessions' = getOrCreateSession(sessions, id, clock)
        /\ sLast' = [op |-> "getOrCreateSession", id |-> id, ret |-> sessions'[id]]
        /\ UNCHANGED <<reviews, clock, chunkVars, handlerVars, clientVars, mergeVars, cliVars, stdinVars>>

StoreActivate ==
    \E id \in Ids :
        /\ sessions' = activateSession(sessions, id, clock)
        /\ sLast' = [op |-> "activateSession", id |-> id, ret |-> sessions'[id]]
        /\ UNCHANGED <<reviews, clock, chunkVars, handlerVars, clientVars, mergeVars, cliVars, stdinVars>>

StoreMarkCompleted ==
    \E id \in Ids :
        /\ sessions' = markSessionCompleted(sessions, id, clock)
        /\ sLast' = [op |-> "markSessionCompleted", id |-> id, ret |-> "ok"]
        /\ UNCHANGED <<reviews, clock, chunkVars, handlerVars, clientVars, mergeVars, cliVars, stdinVars>>

StoreMarkFailed ==
    \E id \in Ids :
        /\ sessions' = markSessionFailed(sessions, id, clock)
        /\ sLast' = [op |-> "markSessionFailed", id |-> id, ret |-> "ok"]
        /\ UNCHANGED <<reviews, clock, chunkVars, handlerVars, clientVars, mergeVars, cliVars, stdinVars>>

HandlersIdle ==
    /\ db = FALSE
    /\ req = <<>>
    /\ ret = "none"
    /\ calls = 0

InitStore ==
    /\ ChunkIdle
    /\ StoreEmpty
    /\ CliIdle
    /\ StdinIdle
    /\ HandlersIdle
    /\ ClientIdle
    /\ MergeIdle

NextStore ==
    \/ StoreGetOrCreate
    \/ StoreActivate
    \/ StoreMarkCompleted
    \/ StoreMarkFailed
    \/ Tick

SpecStore == InitStore /\ [][NextStore]_vars

----------------------------------------------------------------------------
(* The session tracker.  A world w is what one tracker call reads and      *)
(* writes: the two tables, the tracker's preflightId and the log of the    *)
(* store operations this request has issued.  Every store operation either *)
(* takes effect or fails (returns an error value, changes nothing).        *)

Issue(w, op, id, failed) == Append(w.writes, [op |-> op, id |-> id, ok |-> ~failed])

\* a tracker that remembers the id although activateSession failed
preflightRemembersFailed(w, sessionId, now, failed) ==
    IF ~w.db THEN w
    ELSE IF sessionId = Undef THEN w
    ELSE [w EXCEPT
            !.tbl = IF failed THEN @ ELSE activateSession(@, sessionId, now),
            !.writes = Issue(w, "activate", sessionId, failed),
            !.preflightId = sessionId]

preflight(w, sessionId, now, failed) ==
    IF ~w.db THEN w                         \* NULL_TRACKER
    ELSE IF sessionId = Undef THEN w        \* typeof sessionId !== 'string'
    ELSE [w EXCEPT
            !.tbl = IF failed THEN @ ELSE activateSession(@, sessionId, now),
            !.writes = Issue(w, "activate", sessionId, failed),
            !.preflightId = IF failed THEN @ ELSE sessionId]

\* a tracker that completes the session the reviewer returned
recordSuccessOnResultId(w, resultSessionId, review, now, failed) ==
    IF ~w.db THEN w
    ELSE LET w1 == IF ~Truthy(w.preflightId)
                   THEN [w EXCEPT
                           !.tbl = IF failed[1] THEN @
                                   ELSE getOrCreateSession(@, resultSessionId, now),
                           !.writes = Issue(w, "getOrCreate", resultSessionId, failed[1])]
                   ELSE w
             w2 == [w1 EXCEPT
                      !.log = IF failed[2] THEN @ ELSE saveReview(@, review),
                      !.writes = Issue(w1, "save", review.session_id, failed[2])]
         IN [w2 EXCEPT
               !.tbl = IF failed[3] THEN @ ELSE markSessionCompleted(@, resultSessionId, now),
               !.writes = Issue(w2, "markCompleted", resultSessionId, failed[3])]

\* a tracker that gives up at the first store operation that fails
recordSuccessStopsAtFailure(w, resultSessionId, review, now, failed) ==
    IF ~w.db THEN w
    ELSE LET w1 == IF ~Truthy(w.preflightId)
                   THEN [w EXCEPT
                           !.tbl = IF failed[1] THEN @
                                   ELSE getOrCreateSession(@, resultSessionId, now),
                           !.writes = Issue(w, "getOrCreate", resultSessionId, failed[1])]
                   ELSE w
             w2 == [w1 EXCEPT
                      !.log = IF failed[2] THEN @ ELSE saveReview(@, review),
                      !.writes = Issue(w1, "save", review.session_id, failed[2])]
             completeId == IF w.preflightId # Undef THEN w.preflightId
                           ELSE resultSessionId
         IN IF ~Truthy(w.preflightId) /\ failed[1] THEN w1
            ELSE IF failed[2] THEN w2
            ELSE [w2 EXCEPT
                    !.tbl = IF failed[3] THEN @ ELSE markSessionCompleted(@, completeId, now),
                    !.writes = Issue(w2, "markCompleted", completeId, failed[3])]

\* failed = <<getOrCreateSession fails, saveReview fails, markSessionCompleted fails>>
recordSuccess(w, resultSessionId, review, now, failed) ==
    IF ~w.db THEN w
    ELSE LET w1 == IF ~Truthy(w.preflightId)    \* if (!preflightId)
                   THEN [w EXCEPT
                           !.tbl = IF failed[1] THEN @
                                   ELSE getOrCreateSession(@, resultSessionId, now),
                           !.writes = Issue(w, "getOrCreate", resultSessionId, failed[1])]
                   ELSE w
             w2 == [w1 EXCEPT
                      !.log = IF failed[2] THEN @ ELSE saveReview(@, review),
                      !.writes = Issue(w1, "save", review.session_id, failed[2])]
             \* preflightId ?? resultSessionId
             completeId == IF w.preflightId # Undef THEN w.preflightId
                           ELSE resultSessionId
         IN [w2 EXCEPT
               !.tbl = IF failed[3] THEN @ ELSE markSessionCompleted(@, completeId, now),
               !.writes = Issue(w2, "markCompleted", completeId, failed[3])]

recordFailure(w, now, failed) ==
    IF ~w.db THEN w
    ELSE IF ~Truthy(w.preflightId) THEN w       \* if (!preflightId) return
    ELSE [w EXCEPT
            !.tbl = IF failed THEN @ ELSE markSessionFailed(@, w.preflightId, now),
            !.writes = Issue(w, "markFailed", w.preflightId, failed)]

recordFailureBestEffort(w, now, failed) ==
    IF ~w.db THEN w
    ELSE IF ~Truthy(w.preflightId) THEN w
    ELSE [w EXCEPT
            !.tbl = IF failed THEN @ ELSE markSessionFailed(@, w.preflightId, now),
            !.writes = Issue(w, "markFailed", w.preflightId, failed)]

----------------------------------------------------------------------------------------------------------------------------------------
(* The tool-call handlers review_plan, review_code and review_precommit.   *)
(* A request runs from one await to the next in one step.  ret is the      *)
(* response the last step returned, with the store operations the request  *)
(* issued over its whole run; any later step clears it.                    *)

Reqs == {1, 2}             \* two requests may overlap
Kinds == {"plan", "code", "precommit"}
ThreadIds == {"b"}          \* the id a reviewer thread reports: for a caller's
                            \* "b" the same id, for a caller's "a" another one

IdleReq ==
    [pc |-> "idle", kind |-> "none", session_id |-> Undef, preflightId |-> Undef,
     writes |-> <<>>, found |-> "none"]

NoReturn ==
    [pc |-> "none", kind |-> "none", session_id |-> Undef, preflightId |-> Undef,
     writes |-> <<>>, found |-> "none", diff |-> "none", client |-> "none",
     resultId |-> Undef, isError |-> FALSE, text |-> <<>>]

World(r) ==
    [db |-> db, tbl |-> sessions, log |-> reviews,
     preflightId |-> req[r].preflightId, writes |-> req[r].writes]

\* the status preflight finds the session in: "absent" without a row, "none"
\* when preflight issues no activateSession
Found(sessionId) ==
    IF ~db \/ sessionId = Undef THEN "none"
    ELSE IF HasRow(sessions, sessionId) THEN sessions[sessionId].status
    ELSE "absent"

\* the handler goes on to its next await
Proceed(r, w, pc) ==
    /\ sessions' = w.tbl
    /\ reviews' = w.log
    /\ req' = [req EXCEPT ![r].pc = pc, ![r].preflightId = w.preflightId,
                          ![r].writes = w.writes,
                          ![r].found = Found(req[r].session_id)]
    /\ ret' = NoReturn

\* the codes of ErrorCode
ErrorCodes ==
    {"CODEX_TIMEOUT", "CODEX_PARSE_ERROR", "GIT_ERROR", "CONFIG_ERROR", "STORAGE_ERROR",
     "SESSION_NOT_FOUND", "AUTH_ERROR", "MODEL_ERROR", "RATE_LIMITED", "NETWORK_ERROR",
     "UNKNOWN_ERROR"}

\* the codes of the errors a review call of the client returns
ClientErrorCodes ==
    {"SESSION_NOT_FOUND", "CODEX_TIMEOUT", "CODEX_PARSE_ERROR", "AUTH_ERROR", "MODEL_ERROR",
     "RATE_LIMITED", "NETWORK_ERROR", "UNKNOWN_ERROR"}

\* a response text is the sequence of its parts: `${code}: ${msg}`
ErrorText(code, msg) == <<code, ": ", msg>>

\* JSON.stringify(result.data); the session_id of the data is kept in resultId
ResultText == <<"result">>

\* JSON.stringify({ready_to_commit: false, blockers: [], warnings: [...], session_id})
NoStagedText ==
    <<"{ready_to_commit:false,blockers:[],warnings:[No staged changes found],session_id}">>

\* `Unexpected error: ${e.message}`
UnexpectedText(msg) == <<"Unexpected error", ": ", msg>>

\* what resolvePrecommitDiff returns when it returns no diff
DiffErrors ==
    [NO_STAGED_CHANGES |-> ErrorText("NO_STAGED_CHANGES",
                             "No staged changes found. Stage files with git add first."),
     GIT_ERROR |-> ErrorText("GIT_ERROR", "stderr"),
     DISABLED |-> <<"auto_diff disabled and no diff provided">>]

\* the outcome of resolvePrecommitDiff as the request has seen it
Resolved(r) == IF req[r].kind = "precommit" THEN "ok" ELSE "none"

\* a handler that reports NO_STAGED_CHANGES like every other resolution error
DiffFailureResponseAlwaysError(error, sessionId) ==
    [isError |-> TRUE, text |-> error, session_id |-> Undef]

\* the response to a failed diff resolution
DiffFailureResponse(error, sessionId) ==
    IF error[1] = "NO_STAGED_CHANGES"       \* error.startsWith(NO_STAGED_CHANGES)
    THEN [isError |-> FALSE, text |-> NoStagedText,
          session_id |-> IF sessionId = Undef THEN "" ELSE sessionId]
    ELSE [isError |-> TRUE, text |-> error, session_id |-> Undef]

\* a handler that answers with the storage error when one of the request's
\* store operations has failed
ReturnStorageError(r, w, diff, client, resultId, isError, text) ==
    LET storeFailed == \E i \in 1..Len(w.writes) : ~w.writes[i].ok
    IN /\ sessions' = w.tbl
       /\ reviews' = w.log
       /\ req' = [req EXCEPT ![r] = IdleReq]
       /\ ret' = [pc |-> "returned", kind |-> req[r].kind,
                  session_id |-> req[r].session_id, preflightId |-> w.preflightId,
                  writes |-> w.writes, found |-> req[r].found, diff |-> diff,
                  client |-> client,
                  resultId |-> resultId,
                  isError |-> isError \/ storeFailed,
                  text |-> IF storeFailed THEN ErrorText("STORAGE_ERROR", "message")
                           ELSE text]

\* the handler returns its response
Return(r, w, diff, client, resultId, isError, text) ==
    /\ sessions' = w.tbl
    /\ reviews' = w.log
    /\ req' = [req EXCEPT ![r] = IdleReq]
    /\ ret' = [pc |-> "returned", kind |-> req[r].kind,
               session_id |-> req[r].session_id, preflightId |-> w.preflightId,
               writes |-> w.writes, found |-> req[r].found, diff |-> diff,
               client |-> client,
               resultId |-> resultId,
               isError |-> isError, text |-> text]

\* a request arrives: createSessionTracker(db); review_precommit then awaits
\* the diff, review_plan and review_code run preflight and call the client
ToolCall(r) ==
    \E kind \in Kinds, sid \in Ids \cup {Undef}, failed \in BOOLEAN :
        /\ req[r].pc = "idle"
        /\ \A q \in 1..(r - 1) : req[q].pc # "idle"    \* the first free slot
        /\ calls < MaxCalls
        /\ calls' = calls + 1
        /\ LET w0 == [db |-> db, tbl |-> sessions, log |-> reviews,
                      preflightId |-> Undef, writes |-> <<>>]
               w == IF kind = "precommit" THEN w0
                    ELSE preflight(w0, sid, clock, failed)
           IN /\ (failed => w # w0)
              /\ sessions' = w.tbl
              /\ reviews' = w.log
              /\ req' = [req EXCEPT ![r] =
                           [pc |-> IF kind = "precommit" THEN "resolving"
                                   ELSE "awaiting",
                            kind |-> kind, session_id |-> sid,
                            preflightId |-> w.preflightId, writes |-> w.writes,
                            found |-> IF kind = "precommit" THEN "none"
                                      ELSE Found(sid)]]
              /\ ret' = NoReturn
        /\ UNCHANGED <<clock, sLast, db, chunkVars, clientVars, mergeVars, cliVars, stdinVars>>

\* resolvePrecommitDiff gave a diff: preflight, then the client is called
DiffResolved(r) ==
    \E failed \in BOOLEAN :
        /\ req[r].pc = "resolving"
        /\ LET w == preflight(World(r), req[r].session_id, clock, failed)
           IN /\ (failed => w # World(r))
              /\ Proceed(r, w, "awaiting")
        /\ UNCHANGED <<clock, sLast, db, calls, chunkVars, clientVars, mergeVars, cliVars, stdinVars>>

\* resolvePrecommitDiff gave NO_STAGED_CHANGES or another error
DiffUnresolved(r) ==
    \E outcome \in DOMAIN DiffErrors :
        /\ req[r].pc = "resolving"
        /\ LET response == DiffFailureResponse(DiffErrors[outcome], req[r].session_id)
           IN Return(r, World(r), outcome, "none", response.session_id,
                     response.isError, response.text)
        /\ UNCHANGED <<clock, sLast, db, calls, chunkVars, clientVars, mergeVars, cliVars, stdinVars>>

\* the session_id of a successful client result: the id of a reviewer thread,
\* or for the synthetic result of an empty diff the caller's id or ""
ResultIds(r) ==
    ThreadIds \cup
    (IF req[r].kind = "plan" THEN {}
     ELSE {IF req[r].session_id = Undef THEN "" ELSE req[r].session_id})

\* the client returned ok: recordSuccess, then the result is the response
ClientSucceeds(r) ==
    \E rid \in ResultIds(r), failed \in [1..3 -> BOOLEAN] :
        /\ req[r].pc = "awaiting"
        /\ LET review == [session_id |-> rid, type |-> req[r].kind]
               w == recordSuccess(World(r), rid, review, clock, failed)
           IN /\ (\E i \in 1..3 : failed[i]) => db
              /\ (failed[1] => ~Truthy(req[r].preflightId))
              /\ Return(r, w, Resolved(r), "ok", rid, FALSE, ResultText)
        /\ UNCHANGED <<clock, sLast, db, calls, chunkVars, clientVars, mergeVars, cliVars, stdinVars>>

\* a handler without the return after recordFailure: reading result.data throws
\* and the catch clause runs recordFailureBestEffort as well
ClientFailsNoReturn(r) ==
    \E failed \in BOOLEAN :
        /\ req[r].pc = "awaiting"
        /\ LET w1 == recordFailure(World(r), clock, failed)
               w == recordFailureBestEffort(w1, clock, failed)
           IN /\ (failed => w # World(r))
              /\ Return(r, w, Resolved(r), "err", Undef, TRUE, UnexpectedText("message"))
        /\ UNCHANGED <<clock, sLast, db, calls, chunkVars, clientVars, mergeVars, cliVars, stdinVars>>

\* the client returned an error: recordFailure, then the error is the response
ClientFails(r) ==
    \E failed \in BOOLEAN, code \in ClientErrorCodes :
        /\ req[r].pc = "awaiting"
        /\ LET w == recordFailure(World(r), clock, failed)
           IN /\ (failed => w # World(r))
              /\ Return(r, w, Resolved(r), "err", Undef, TRUE, ErrorText(code, "message"))
        /\ UNCHANGED <<clock, sLast, db, calls, chunkVars, clientVars, mergeVars, cliVars, stdinVars>>

\* the client threw: the catch clause runs recordFailureBestEffort
ClientThrows(r) ==
    \E failed \in BOOLEAN :
        /\ req[r].pc = "awaiting"
        /\ LET w == recordFailureBestEffort(World(r), clock, failed)
           IN /\ (failed => w # World(r))
              /\ Return(r, w, Resolved(r), "throw", Undef, TRUE, UnexpectedText("message"))
        /\ UNCHANGED <<clock, sLast, db, calls, chunkVars, clientVars, mergeVars, cliVars, stdinVars>>

Init ==
    /\ ChunkIdle
    /\ StoreEmpty
    /\ CliIdle
    /\ StdinIdle
    /\ db \in BOOLEAN
    /\ req = [r \in Reqs |-> IdleReq]
    /\ ret = NoReturn
    /\ calls = 0
    /\ ClientIdle
    /\ MergeIdle

Next ==
    \/ \E r \in Reqs : ToolCall(r)
    \/ \E r \in Reqs : DiffResolved(r)
    \/ \E r \in Reqs : DiffUnresolved(r)
    \/ \E r \in Reqs : ClientSucceeds(r)
    \/ \E r \in Reqs : ClientFails(r)
    \/ \E r \in Reqs : ClientThrows(r)

Spec == Init /\ [][Next]_vars

----------------------------------------------------------------------------
(* The reviewer client: classifyError, runReview, reviewPlan, reviewCode   *)
(* and reviewPrecommit.  A thrown value is [isError, name, message]; a     *)
(* message is a sequence of words and contains a pattern when one of its   *)
(* words, in lower case, is the pattern.                                   *)

NullId == "<null>"          \* thread.id === null

toLowerCase(word) ==
    CASE word = "Aborted" -> "aborted"
      [] word = "ABORTED" -> "aborted"
      [] word = "Model" -> "model"
      [] OTHER -> word

includes(message, pattern) ==
    \E i \in 1..Len(message) : toLowerCase(message[i]) = pattern

\* an abort check that looks at the error name only
isAbortErrorByName(e) == e.isError /\ e.name = "AbortError"

isAbortError(e) ==
    e.isError /\ (e.name = "AbortError" \/ includes(e.message, "aborted"))

classifyError(e) ==
    LET lower == e.message
    IN IF includes(lower, "api_key") \/ includes(lower, "authentication")
          \/ includes(lower, "401")
       THEN "AUTH_ERROR"
       ELSE IF includes(lower, "model")
               /\ (includes(lower, "not supported") \/ includes(lower, "not found"))
       THEN "MODEL_ERROR"
       ELSE IF includes(lower, "429") \/ includes(lower, "rate_limit")
               \/ includes(lower, "rate limit")
       THEN "RATE_LIMITED"
       ELSE IF includes(lower, "fetch failed") \/ includes(lower, "econnrefused")
               \/ includes(lower, "enotfound")
       THEN "NETWORK_ERROR"
       ELSE "UNKNOWN_ERROR"

\* the values the SDK throws
Thrown ==
    {[isError |-> TRUE, name |-> "Error", message |-> m] :
        m \in {<<"boom">>, <<"401">>, <<"Model", "not found">>, <<"rate limit">>,
               <<"fetch failed">>, <<"Aborted">>, <<"ABORTED", "401">>,
               <<"aborted", "fetch failed">>}}
    \cup {[isError |-> TRUE, name |-> "AbortError", message |-> m] :
        m \in {<<"boom">>, <<"429">>}}
    \cup {[isError |-> FALSE, name |-> "none", message |-> <<"aborted">>]}

\* what thread.run rejects with when the signal of AbortSignal.timeout fires
AbortReasons ==
    {[isError |-> TRUE, name |-> "AbortError", message |-> <<"aborted">>],
     [isError |-> TRUE, name |-> "TimeoutError", message |-> <<"aborted">>]}

NoThrown == [isError |-> FALSE, name |-> "none", message |-> <<>>]

TimeoutSeconds == 1         \* config.timeout_seconds
PROMPT_OVERHEAD_TOKENS == 2000
MinDiffBudget == 500
Attempts == 2               \* for (let attempt = 0; attempt < 2; attempt++)

NoChunksReviewed == 0       \* the result has no field chunks_reviewed

Err(code, message) ==
    [ok |-> FALSE, code |-> code, message |-> message, session_id |-> Undef,
     chunks_reviewed |-> NoChunksReviewed]

Ok(sessionId, chunksReviewed) ==
    [ok |-> TRUE, code |-> "none", message |-> "none", session_id |-> sessionId,
     chunks_reviewed |-> chunksReviewed]

NoResult == Err("none", "none")

RECURSIVE computeVariableOverhead(_)
computeVariableOverhead(parts) ==
    IF parts = <<>> THEN 0
    ELSE (IF Head(parts) # <<>> THEN estimateTokens(Head(parts)) ELSE 0)
         + computeVariableOverhead(Tail(parts))

Max(a, b) == IF a >= b THEN a ELSE b

ProjectContext == <<>>                  \* config.project_context
Criteria == <<"x", "x", "x", "x">>      \* criteria.join(', ')
Checklist == <<>>                       \* checklist.join(', ')

diffBudget(in) ==
    LET variableOverhead ==
            IF in.kind = "code"
            THEN computeVariableOverhead(<<in.context, ProjectContext, Criteria>>)
            ELSE computeVariableOverhead(<<ProjectContext, Checklist>>)
    IN Max(in.max_chunk_tokens - PROMPT_OVERHEAD_TOKENS - variableOverhead,
           MinDiffBudget)

\* the prompt of runReview: the diff or plan it carries and the chunk header
Prompt(i) ==
    IF Len(kChunks) > 1
    THEN [payload |-> kChunks[i], chunk |-> i, of |-> Len(kChunks)]
    ELSE [payload |-> kIn.diff, chunk |-> 1, of |-> 1]

\* the catch clause around thread.run without the abort check
TurnErrorClassifiedOnly(e) == Err(classifyError(e), "classified")

\* the catch clause around thread.run
TurnError(e) ==
    IF isAbortError(e)
    THEN Err("CODEX_TIMEOUT", "review timed out")
    ELSE Err(classifyError(e), "classified")

\* a retry loop that goes round once more
MayRetryOnceMore(attempt) == attempt + 1 < Attempts + 1

\* the loop goes round again after attempt
MayRetry(attempt) == attempt + 1 < Attempts

\* a chunk loop that resumes the caller's session for every chunk
NextSessionIdOfCaller(result) == kIn.session_id

\* sessionId = result.data.session_id
NextSessionId(result) == result.session_id

\* a merge that leaves chunks_reviewed out
ChunksReviewedOmitted(results) == NoChunksReviewed

\* chunks_reviewed: results.length
ChunksReviewed(results) == Len(results)

\* a synthetic result that forgets the caller's session
SyntheticSessionIdEmpty(in) == ""

\* input.session_id ?? ''
SyntheticSessionId(in) == IF in.session_id = Undef THEN "" ELSE in.session_id

\* the result for a diff without chunks
Synthetic(in) ==
    [ok |-> TRUE, code |-> "none", message |-> "none",
     session_id |-> SyntheticSessionId(in),
     chunks_reviewed |-> NoChunksReviewed,
     data |-> IF in.kind = "code"
              THEN [verdict |-> "approve", summary |-> "No changes to review.",
                    findings |-> <<>>]
              ELSE [ready_to_commit |-> TRUE, blockers |-> <<>>, warnings |-> <<>>]]

\* a resolution that prefers the caller's session id
ResolveIdCallerFirst(threadId, sessionId) ==
    IF sessionId # Undef THEN sessionId ELSE threadId

\* thread.id ?? sessionId
ResolveId(threadId, sessionId) ==
    IF threadId # NullId THEN threadId ELSE sessionId

\* a chunk loop that answers a failed chunk with what it has reviewed so far
ChunkFailureMerged(result) == Ok(kSid, Len(kResults))

\* if (!result.ok) return result
ChunkFailure(result) == result

ClientInputs ==
    {[kind |-> "plan", session_id |-> sid, diff |-> <<"x">>, context |-> <<>>,
      max_chunk_tokens |-> 8000] : sid \in Ids \cup {Undef}}
    \cup
    [kind : {"code", "precommit"},
     session_id : Ids \cup {Undef},
     diff : {<<>>, <<"N">>,
             <<"D", "N", "B">>,
             <<"D", "N", "B", "N", "D", "N", "B">>,
             <<"D", "N", "B", "N", "D", "N", "B", "N", "D", "N", "B">>},
     context : {<<>>, <<"B">>},
     max_chunk_tokens : {2600, 8000}]

\* runReview returns result for the chunk (or the whole input) under review
RunReviewReturns(result) ==
    /\ kRun' = result
    /\ IF Len(kChunks) = 1
       THEN /\ kResult' = result
            /\ kPc' = "done"
            /\ UNCHANGED <<kI, kSid, kResults>>
       ELSE IF ~result.ok
       THEN /\ kResult' = ChunkFailure(result)
            /\ kPc' = "done"
            /\ UNCHANGED <<kI, kSid, kResults>>
       ELSE /\ kResults' = Append(kResults, result.session_id)
            /\ kSid' = NextSessionId(result)
            /\ IF kI < Len(kChunks)
               THEN /\ kI' = kI + 1
                    /\ kPc' = "acquire"
                    /\ UNCHANGED kResult
               ELSE /\ kPc' = "done"
                    /\ kResult' = Ok(NextSessionId(result),
                                     ChunksReviewed(Append(kResults, result.session_id)))
                    /\ UNCHANGED kI

\* reviewPlan, reviewCode or reviewPrecommit is called; a diff is chunked
\* (a plan goes to runReview whole)
ClientCall ==
    /\ kPc = "call"
    /\ LET chunks == IF kIn.kind = "plan" THEN <<kIn.diff>>
                     ELSE chunkDiff(kIn.diff, diffBudget(kIn))
       IN /\ kChunks' = chunks
          /\ IF Len(chunks) = 0
             THEN /\ kPc' = "done"
                  /\ kResult' = Synthetic(kIn)
             ELSE /\ kPc' = "acquire"
                  /\ UNCHANGED kResult
    /\ kI' = 1
    /\ kSid' = kIn.session_id
    /\ UNCHANGED <<kIn, kThread, kAttempt, kElapsed, kLastError, kTurn, kRun, kLog,
                   kResults, chunkVars, storeVars, handlerVars, mergeVars, cliVars, stdinVars>>

Turn(kind, tid, thrown, need) ==
    [kind |-> kind, tid |-> tid, thrown |-> thrown, need |-> need]

NoTurn == Turn("none", NullId, NoThrown, 0)

Entry(op, id, thread, prompt) ==
    [op |-> op, id |-> id, thread |-> thread, prompt |-> prompt]

\* an acquisition that never resumes
AcquireEntryAlwaysStart == Entry("startThread", Undef, Len(kLog) + 1, <<>>)

\* sessionId ? codex.resumeThread(sessionId, ...) : codex.startThread(...)
AcquireEntry ==
    IF Truthy(kSid)
    THEN Entry("resumeThread", kSid, Len(kLog) + 1, <<>>)
    ELSE Entry("startThread", Undef, Len(kLog) + 1, <<>>)

RunEntry == Entry("run", Undef, kThread, Prompt(kI))

\* runReview starts: resumeThread(sessionId) or startThread() gives a thread,
\* and the signal of AbortSignal.timeout starts to run
ThreadAcquired ==
    /\ kPc = "acquire"
    /\ kLog' = Append(kLog, AcquireEntry)
    /\ kThread' = Len(kLog) + 1
    /\ kAttempt' = 0
    /\ kElapsed' = 0
    /\ kLastError' = Undef
    /\ kPc' = "turn"
    /\ UNCHANGED <<kIn, kChunks, kI, kSid, kTurn, kRun, kResults, kResult,
                   chunkVars, storeVars, handlerVars, mergeVars, cliVars, stdinVars>>

\* resumeThread or startThread throws
ThreadRefused ==
    \E e \in Thrown :
        /\ kPc = "acquire"
        /\ kLog' = Append(kLog, AcquireEntry)
        /\ kTurn' = Turn("refused", NullId, e, 0)
        /\ RunReviewReturns(IF Truthy(kSid) THEN Err("SESSION_NOT_FOUND", "message")
                            ELSE Err(classifyError(e), "classified"))
        /\ UNCHANGED <<kIn, kChunks, kThread, kAttempt, kElapsed, kLastError,
                       chunkVars, storeVars, handlerVars, mergeVars, cliVars, stdinVars>>

\* turn.finalResponse fails JSON.parse or responseSchema.safeParse
FailureMessage(response) ==
    IF response = "malformed" THEN "malformed JSON in response" ELSE "schema error"

\* thread.run resolves within the deadline with a response that is valid,
\* malformed JSON, or JSON that fails the schema; tid is thread.id afterwards
TurnResponds ==
    \E need \in 0..MaxTurnTime, response \in {"valid", "malformed", "invalid"},
       tid \in Ids \cup {NullId} :
        /\ kPc = "turn"
        /\ kElapsed + need <= TimeoutSeconds
        /\ response # "valid" => tid = NullId
        /\ kLog' = Append(kLog, RunEntry)
        /\ kTurn' = Turn(response, tid, NoThrown, need)
        /\ kElapsed' = kElapsed + need
        /\ IF response # "valid"
           THEN /\ kAttempt' = kAttempt + 1
                /\ kLastError' = FailureMessage(response)
                /\ IF MayRetry(kAttempt)
                   THEN UNCHANGED <<kPc, kI, kSid, kRun, kResults, kResult>>
                   ELSE RunReviewReturns(Err("CODEX_PARSE_ERROR",
                                             FailureMessage(response)))
           ELSE LET resolvedId == ResolveId(tid, kSid)
                IN /\ UNCHANGED <<kAttempt, kLastError>>
                   /\ RunReviewReturns(
                        IF ~Truthy(resolvedId)
                        THEN Err("CODEX_PARSE_ERROR", "missing session ID")
                        ELSE Ok(resolvedId, NoChunksReviewed))
        /\ UNCHANGED <<kIn, kChunks, kThread, chunkVars, storeVars, handlerVars, mergeVars, cliVars, stdinVars>>

\* thread.run rejects within the deadline with an error of the SDK
TurnThrows ==
    \E need \in 0..MaxTurnTime, e \in Thrown :
        /\ kPc = "turn"
        /\ kElapsed + need <= TimeoutSeconds
        /\ kLog' = Append(kLog, RunEntry)
        /\ kTurn' = Turn("threw", NullId, e, need)
        /\ kElapsed' = kElapsed + need
        /\ RunReviewReturns(TurnError(e))
        /\ UNCHANGED <<kIn, kChunks, kThread, kAttempt, kLastError,
                       chunkVars, storeVars, handlerVars, mergeVars, cliVars, stdinVars>>

\* the turn needs longer than the signal allows: the signal fires and
\* thread.run rejects with the abort reason
TurnTimesOut ==
    \E need \in 0..MaxTurnTime, e \in AbortReasons :
        /\ kPc = "turn"
        /\ kElapsed + need > TimeoutSeconds
        /\ kLog' = Append(kLog, RunEntry)
        /\ kTurn' = Turn("timeout", NullId, e, need)
        /\ kElapsed' = TimeoutSeconds
        /\ RunReviewReturns(TurnError(e))
        /\ UNCHANGED <<kIn, kChunks, kThread, kAttempt, kLastError,
                       chunkVars, storeVars, handlerVars, mergeVars, cliVars, stdinVars>>

InitClient ==
    /\ ChunkIdle
    /\ StoreEmpty
    /\ CliIdle
    /\ StdinIdle
    /\ HandlersIdle
    /\ MergeIdle
    /\ kIn \in ClientInputs
    /\ kPc = "call"
    /\ kChunks = <<>>
    /\ kI = 0
    /\ kSid = Undef
    /\ kThread = 0
    /\ kAttempt = 0
    /\ kElapsed = 0
    /\ kLastError = Undef
    /\ kTurn = NoTurn
    /\ kRun = NoResult
    /\ kLog = <<>>
    /\ kResults = <<>>
    /\ kResult = NoResult

NextClient ==
    \/ ClientCall
    \/ ThreadAcquired
    \/ ThreadRefused
    \/ TurnResponds
    \/ TurnThrows
    \/ TurnTimesOut

SpecClient == InitClient /\ [][NextClient]_vars

----------------------------------------------------------------------------
(* Merging the chunk results: deduplicateFindings, mergeCodeResults and    *)
(* mergePrecommitResults.  A file name and a category are strings, kept    *)
(* as sequences of characters; a finding's line is a positive number.      *)

NullString == <<"null">>    \* file: null
NullLine == 0               \* line: null

DigitChars == <<"0", "1", "2", "3", "4", "5", "6", "7", "8", "9">>

\* `${line}`
RECURSIVE NumberToString(_)
NumberToString(n) ==
    IF n < 10 THEN <<DigitChars[n + 1]>>
    ELSE NumberToString(n \div 10) \o <<DigitChars[(n % 10) + 1]>>

\* `${f.file}:${f.line}:${f.category}`
Key(f) == f.file \o <<":">> \o NumberToString(f.line) \o <<":">> \o f.category

\* options.map((s, i, arr) => [s, arr.length - 1 - i])
severityRank(severity) ==
    CASE severity = "critical" -> 3
      [] severity = "major" -> 2
      [] severity = "minor" -> 1
      [] severity = "nitpick" -> 0

\* a result order that puts the findings without a key first
DedupResultKeylessFirst(map, keyless) ==
    keyless \o [i \in 1..Len(map) |-> map[i].value]

\* [...map.values(), ...keyless]
DedupResult(map, keyless) ==
    [i \in 1..Len(map) |-> map[i].value] \o keyless

\* the loop of deduplicateFindings over findings[i..]; map keeps the keys
\* in the order of their first insertion
RECURSIVE DedupLoop(_, _, _, _)
DedupLoop(findings, i, map, keyless) ==
    IF i > Len(findings) THEN DedupResult(map, keyless)
    ELSE LET f == findings[i]
         IN IF f.file = NullString \/ f.line = NullLine
            THEN DedupLoop(findings, i + 1, map, Append(keyless, f))
            ELSE LET key == Key(f)
                     at == {j \in 1..Len(map) : map[j].key = key}
                 IN IF at = {}
                    THEN DedupLoop(findings, i + 1,
                                   Append(map, [key |-> key, value |-> f]), keyless)
                    ELSE LET j == CHOOSE j \in at : TRUE
                         IN IF severityRank(f.severity)
                                 > severityRank(map[j].value.severity)
                            THEN DedupLoop(findings, i + 1,
                                    [map EXCEPT ![j] = [key |-> key, value |-> f]],
                                    keyless)
                            ELSE DedupLoop(findings, i + 1, map, keyless)

deduplicateFindings(findings) == DedupLoop(findings, 1, <<>>, <<>>)

\* a verdict rank that puts reject lowest
codeVerdictRankRejectLowest(verdict) ==
    CASE verdict = "reject" -> 0
      [] verdict = "approve" -> 1
      [] verdict = "request_changes" -> 2

codeVerdictRank(verdict) ==
    CASE verdict = "approve" -> 0
      [] verdict = "request_changes" -> 1
      [] verdict = "reject" -> 2

\* the loop of mergeCodeResults over results[i..]
RECURSIVE WorstVerdict(_, _, _)
WorstVerdict(results, i, worstVerdict) ==
    IF i > Len(results) THEN worstVerdict
    ELSE IF codeVerdictRank(results[i].verdict) > codeVerdictRank(worstVerdict)
    THEN WorstVerdict(results, i + 1, results[i].verdict)
    ELSE WorstVerdict(results, i + 1, worstVerdict)

\* results.flatMap((r) => r.<field>)
RECURSIVE FlatMap(_, _)
FlatMap(results, field) ==
    IF results = <<>> THEN <<>>
    ELSE Head(results)[field] \o FlatMap(Tail(results), field)

mergeCodeResults(results, sessionId) ==
    [verdict |-> WorstVerdict(results, 1, results[1].verdict),
     findings |-> deduplicateFindings(FlatMap(results, "findings")),
     session_id |-> sessionId,
     chunks_reviewed |-> Len(results)]

\* a merge that is ready when some chunk is ready
mergePrecommitResultsAnyReady(results, sessionId) ==
    [ready_to_commit |-> \E i \in 1..Len(results) : results[i].ready_to_commit,
     blockers |-> FlatMap(results, "blockers"),
     warnings |-> FlatMap(results, "warnings"),
     session_id |-> sessionId,
     chunks_reviewed |-> Len(results)]

mergePrecommitResults(results, sessionId) ==
    [ready_to_commit |-> \A i \in 1..Len(results) : results[i].ready_to_commit,
     blockers |-> FlatMap(results, "blockers"),
     warnings |-> FlatMap(results, "warnings"),
     session_id |-> sessionId,
     chunks_reviewed |-> Len(results)]

\* the findings a validated code review response may carry
Findings ==
    [file : {<<"a">>}, line : {1}, category : {<<"2", ":", "c">>},
     severity : {"minor", "critical"}]
    \cup [file : {<<"a", ":", "1">>}, line : {2}, category : {<<"c">>},
          severity : {"major"}]
    \cup [file : {NullString}, line : {NullLine}, category : {<<"c">>},
          severity : {"minor"}]
    \cup [file : {<<"a">>}, line : {NullLine}, category : {<<"c">>},
          severity : {"nitpick"}]

Verdicts == {"approve", "request_changes", "reject"}

Notes == {"p", "q"}         \* blockers and warnings

\* the arrays over S of at most n elements
ListsUpTo(S, n) == UNION {[1..k -> S] : k \in 0..n}

\* the items the chunk results hold so far
RECURSIVE ItemCount(_)
ItemCount(results) ==
    IF results = <<>> THEN 0
    ELSE (IF mKind = "code" THEN Len(Head(results).findings)
          ELSE Len(Head(results).blockers) + Len(Head(results).warnings))
         + ItemCount(Tail(results))

\* a chunk of a code review is reviewed: chunkResults.push(result.data)
CodeChunkReviewed ==
    \E verdict \in Verdicts, findings \in ListsUpTo(Findings, MaxItems - ItemCount(mIn)) :
        /\ mPc = "review"
        /\ mKind = "code"
        /\ Len(mIn) < MaxChunks
        /\ mIn' = Append(mIn, [verdict |-> verdict, findings |-> findings])
        /\ UNCHANGED <<mKind, mOut, mPc, chunkVars, storeVars, handlerVars, clientVars, cliVars, stdinVars>>

\* a chunk of a precommit review is reviewed
PrecommitChunkReviewed ==
    \E ready \in BOOLEAN, blockers \in ListsUpTo(Notes, MaxItems - ItemCount(mIn)) :
      \E warnings \in ListsUpTo(Notes, MaxItems - ItemCount(mIn) - Len(blockers)) :
        /\ mPc = "review"
        /\ mKind = "precommit"
        /\ Len(mIn) < MaxChunks
        /\ mIn' = Append(mIn, [ready_to_commit |-> ready, blockers |-> blockers,
                               warnings |-> warnings])
        /\ UNCHANGED <<mKind, mOut, mPc, chunkVars, storeVars, handlerVars, clientVars, cliVars, stdinVars>>

\* the last chunk is done: return ok(mergeCodeResults(chunkResults, sessionId))
MergeCode ==
    /\ mPc = "review"
    /\ mKind = "code"
    /\ Len(mIn) > 1
    /\ mOut' = mergeCodeResults(mIn, "b")
    /\ mPc' = "done"
    /\ UNCHANGED <<mKind, mIn, chunkVars, storeVars, handlerVars, clientVars, cliVars, stdinVars>>

\* return ok(mergePrecommitResults(chunkResults, sessionId))
MergePrecommit ==
    /\ mPc = "review"
    /\ mKind = "precommit"
    /\ Len(mIn) > 1
    /\ mOut' = mergePrecommitResults(mIn, "b")
    /\ mPc' = "done"
    /\ UNCHANGED <<mKind, mIn, chunkVars, storeVars, handlerVars, clientVars, cliVars, stdinVars>>

InitMerge ==
    /\ ChunkIdle
    /\ StoreEmpty
    /\ CliIdle
    /\ StdinIdle
    /\ HandlersIdle
    /\ ClientIdle
    /\ mKind \in {"code", "precommit"}
    /\ mIn = <<>>
    /\ mOut = [chunks_reviewed |-> 0]
    /\ mPc = "review"

NextMerge ==
    \/ CodeChunkReviewed
    \/ PrecommitChunkReviewed
    \/ MergeCode
    \/ MergePrecommit

SpecMerge == InitMerge /\ [][NextMerge]_vars

----------------------------------------------------------------------------
(* Specification of a chunker call: any diff, any budget *)

ChunkSymbols == {"D", "H", "N", "x"}

InitChunk ==
    /\ cDiff \in SeqsUpTo(ChunkSymbols, MaxDiffLen)
    /\ cMax \in 0..MaxTokens
    /\ cChunks = <<>>
    /\ cPc = "call"
    /\ StoreEmpty
    /\ CliIdle
    /\ StdinIdle
    /\ HandlersIdle
    /\ ClientIdle
    /\ MergeIdle

ChunkCall ==
    /\ cPc = "call"
    /\ cChunks' = chunkDiff(cDiff, cMax)
    /\ cPc' = "done"
    /\ UNCHANGED <<cDiff, cMax, storeVars, handlerVars, clientVars, mergeVars, cliVars, stdinVars>>

NextChunk == ChunkCall

SpecChunk == InitChunk /\ [][NextChunk]_vars

----------------------------------------------------------------------------
(* Reading input: stdin.ts.  readInput("-") reads the stream until end,     *)
(* error or timeout; any other source is read as a file.                    *)

MaxReads == 3           \* readInput calls
MaxResets == 2          \* resetStdinGuard calls
MaxStdinChunks == 1     \* 'data' events of one read
TimeoutTicks == 2       \* timeoutMs, in ticks of the clock

Sources == {"-", "f"}

ReadOk(data) == [ok |-> TRUE, text |-> data]
ReadErr(error) == [ok |-> FALSE, text |-> error]

StdinConsumedError == ReadErr("stdin already consumed in this invocation")
StdinTimeoutError == ReadErr("stdin timeout: no input received within 5000ms")
StdinStreamError == ReadErr("stdin error: message")
FileError == ReadErr("Failed to read file: message")

\* Buffer.concat(chunks).toString('utf-8')
Concat(chunks) == IF chunks = 0 THEN "" ELSE "d"

\* a guard that lets every read through
StdinRefusedNever(source, consumed) == FALSE

\* readStdin returns the error before it touches the stream
StdinRefused(source, consumed) == source = "-" /\ consumed

\* stdinConsumed after readInput has started
StdinLatch(source, consumed) == IF source = "-" THEN TRUE ELSE consumed

\* what the timer of readStdin resolves to
TimeoutResult(chunks) ==
    IF chunks > 0 THEN ReadOk(Concat(chunks)) ELSE StdinTimeoutError

\* every result readInput(source) may resolve to
ReadResults(source, consumed) ==
    IF StdinRefused(source, consumed) THEN {StdinConsumedError}
    ELSE IF source = "-"
    THEN {ReadOk(Concat(c)) : c \in 0..MaxStdinChunks}
           \cup {StdinStreamError, StdinTimeoutError}
    ELSE {ReadOk(""), ReadOk("d"), FileError}

IdleRead ==
    [source |-> "none", pc |-> "idle", chunks |-> 0, result |-> ReadErr("none"),
     listeners |-> FALSE, armed |-> FALSE, timer |-> 0, quiet |-> 0,
     resolves |-> 0, by |-> "none", seen |-> "none"]

\* a read that readInput answers without the stream: resolved by the call
Answered(source, result) ==
    [IdleRead EXCEPT !.source = source, !.pc = "settled", !.result = result,
                     !.resolves = 1, !.by = "call"]

\* a read of the stream after `resetTimer()` and the three `stream.on` calls
Listening(source) ==
    [IdleRead EXCEPT !.source = source, !.pc = "reading", !.listeners = TRUE,
                     !.armed = TRUE]

LogReset == [op |-> "reset", source |-> "none", attached |-> FALSE, i |-> 0]
LogRead(source, attached, i) ==
    [op |-> "read", source |-> source, attached |-> attached, i |-> i]

Resets == {k \in 1..Len(rLog) : rLog[k].op = "reset"}

resetStdinGuard ==
    /\ Cardinality(Resets) < MaxResets
    /\ stdinConsumed' = FALSE
    /\ rLog' = Append(rLog, LogReset)
    /\ UNCHANGED <<rd, chunkVars, storeVars, handlerVars, clientVars, mergeVars, cliVars>>

\* readInput(source) is called: a refused read and a file read return at once,
\* a read of the stream sets the latch, starts the timer and attaches its
\* listeners
readInput(i) ==
    \E source \in Sources, fileResult \in ReadResults("f", FALSE) :
        /\ rd[i].pc = "idle"
        /\ \A j \in 1..(i - 1) : rd[j].pc # "idle"
        /\ source = "-" => fileResult = FileError
        /\ LET attached == source = "-" /\ ~StdinRefused(source, stdinConsumed)
           IN /\ rd' = [rd EXCEPT ![i] =
                          IF StdinRefused(source, stdinConsumed)
                          THEN Answered(source, StdinConsumedError)
                          ELSE IF source = "-" THEN Listening(source)
                          ELSE Answered(source, fileResult)]
              /\ stdinConsumed' = IF StdinRefused(source, stdinConsumed)
                                  THEN stdinConsumed
                                  ELSE StdinLatch(source, stdinConsumed)
              /\ rLog' = Append(rLog, LogRead(source, attached, i))
        /\ UNCHANGED <<chunkVars, storeVars, handlerVars, clientVars, mergeVars, cliVars>>

\* a timer that a 'data' event leaves running
resetTimerKeepsRunning(r) == [r EXCEPT !.armed = TRUE]

\* resetTimer(): clearTimeout(timer); timer = setTimeout(..., timeoutMs)
resetTimer(r) == [r EXCEPT !.armed = TRUE, !.timer = 0]

\* settled = true; resolve(result); the timer is cleared or has fired.  seen
\* is the last event whose listener or timer callback has run for the read.
Settle(r, by, result) ==
    [r EXCEPT !.pc = "settled", !.result = result, !.by = by, !.seen = by,
              !.resolves = @ + 1, !.armed = FALSE]

\* the 'data' listener: it has no test of settled
onData(r) ==
    IF ~r.listeners THEN r
    ELSE resetTimer([r EXCEPT !.chunks = @ + 1, !.seen = "data",
                              !.quiet = IF r.pc = "reading" THEN 0 ELSE @])

\* the 'end' listener
onEnd(r) ==
    IF ~r.listeners THEN r
    ELSE IF r.pc = "reading"                   \* if (!settled)
    THEN Settle(r, "end", ReadOk(Concat(r.chunks)))
    ELSE [r EXCEPT !.seen = "end"]

\* the 'error' listener
onError(r) ==
    IF ~r.listeners THEN r
    ELSE IF r.pc = "reading"                   \* if (!settled)
    THEN Settle(r, "error", StdinStreamError)
    ELSE [r EXCEPT !.seen = "error"]

\* the callback of the timer
onTimeout(r) ==
    IF r.pc = "reading"                        \* if (!settled)
    THEN [Settle(r, "timeout", TimeoutResult(r.chunks)) EXCEPT !.listeners = FALSE]
    ELSE [r EXCEPT !.armed = FALSE, !.seen = "timeout"]

Attached == {i \in 1..MaxReads : rd[i].listeners}

StdinUnchanged ==
    UNCHANGED <<stdinConsumed, rLog, chunkVars, storeVars, handlerVars, clientVars,
                mergeVars, cliVars>>

\* the stream emits 'data': every attached listener runs
StreamData ==
    /\ Attached # {}
    /\ \A i \in Attached : rd[i].chunks < MaxStdinChunks
    /\ rd' = [i \in 1..MaxReads |-> onData(rd[i])]
    /\ StdinUnchanged

\* the stream emits 'end'
StreamEnd ==
    /\ Attached # {}
    /\ rd' = [i \in 1..MaxReads |-> onEnd(rd[i])]
    /\ StdinUnchanged

\* the stream emits 'error'
StreamError ==
    /\ Attached # {}
    /\ rd' = [i \in 1..MaxReads |-> onError(rd[i])]
    /\ StdinUnchanged

\* the timer of read i fires after timeoutMs; when it settles the read,
\* stream.removeAllListeners detaches the listeners of every read
StreamTimeout(i) ==
    /\ rd[i].armed
    /\ rd[i].timer = TimeoutTicks
    /\ rd' = [j \in 1..MaxReads |->
                IF j = i THEN onTimeout(rd[i])
                ELSE IF rd[i].pc = "reading" THEN [rd[j] EXCEPT !.listeners = FALSE]
                ELSE rd[j]]
    /\ StdinUnchanged

\* time passes: every running timer advances, none past the time it is due
StdinTick ==
    /\ \E i \in 1..MaxReads : rd[i].armed
    /\ \A i \in 1..MaxReads : rd[i].armed => rd[i].timer < TimeoutTicks
    /\ rd' = [i \in 1..MaxReads |->
                IF rd[i].armed
                THEN [rd[i] EXCEPT !.timer = @ + 1,
                                   !.quiet = IF rd[i].pc = "reading" /\ @ < TimeoutTicks
                                             THEN @ + 1 ELSE @]
                ELSE rd[i]]
    /\ StdinUnchanged

InitStdin ==
    /\ ChunkIdle
    /\ StoreEmpty
    /\ HandlersIdle
    /\ ClientIdle
    /\ MergeIdle
    /\ CliIdle
    /\ stdinConsumed = FALSE
    /\ rd = [i \in 1..MaxReads |-> IdleRead]
    /\ rLog = <<>>

NextStdin ==
    \/ resetStdinGuard
    \/ \E i \in 1..MaxReads : readInput(i)
    \/ StreamData
    \/ StreamEnd
    \/ StreamError
    \/ \E i \in 1..MaxReads : StreamTimeout(i)
    \/ StdinTick

SpecStdin == InitStdin /\ [][NextStdin]_vars

----------------------------------------------------------------------------
(* The CLI command review-precommit: commands.ts and handlers.ts.  The     *)
(* exit codes are those passed to deps.exit, and for an exception that     *)
(* leaves runCli the one the entry point passes to process.exit.           *)

MaxRuns == 2            \* CLI invocations

DiffOptions == {Undef, "", "-", "f"}    \* --diff <path>
SessionOptions == {Undef, "a"}          \* --session <id>

CliOptions == [diff : DiffOptions, session : SessionOptions, json : BOOLEAN]

\* what the invocation obtained: the stage that ended it and the Result there
CliResult(stage, isOk, ready, error) ==
    [stage |-> stage, ok |-> isOk, ready_to_commit |-> ready, error |-> error]

NoCliResult == CliResult("none", FALSE, FALSE, <<>>)

\* getStagedDiff(): the trimmed output of git diff --cached, or GIT_ERROR
GitResults == {ReadOk(""), ReadOk("d"), ReadErr("GIT_ERROR")}

resolvePrecommitDiff(diff, auto_diff, git) ==
    IF diff # Undef THEN [ok |-> TRUE, data |-> diff, error |-> <<>>]
    ELSE IF auto_diff
    THEN IF ~git.ok THEN [ok |-> FALSE, data |-> "", error |-> DiffErrors.GIT_ERROR]
         ELSE IF git.text = ""      \* if (!gitResult.data)
         THEN [ok |-> FALSE, data |-> "", error |-> DiffErrors.NO_STAGED_CHANGES]
         ELSE [ok |-> TRUE, data |-> git.text, error |-> <<>>]
    ELSE [ok |-> FALSE, data |-> "", error |-> DiffErrors.DISABLED]

\* an exit code that tells a blocked commit from nothing else
exitCodeBlockedIsError(result) == IF result.ready_to_commit THEN 0 ELSE 1

\* exitCode: (result) => (result.ready_to_commit ? 0 : 2)
exitCode(result) == IF result.ready_to_commit THEN 0 ELSE 2

\* createHandler after execute(): the line written to stderr and the exit code
HandlerExit(result) == IF ~result.ok THEN 1 ELSE exitCode(result)

HandlerStderr(result, json) ==
    IF result.ok THEN <<>>
    ELSE IF json THEN <<<<"{error}", result.error>>>>
    ELSE <<<<"Error", result.error>>>>

\* the results client.reviewPrecommit returns
CliReviewResults ==
    {CliResult("review", TRUE, ready, <<>>) : ready \in BOOLEAN}
      \cup {CliResult("review", FALSE, FALSE, ErrorText(code, "message")) :
              code \in {"CODEX_TIMEOUT", "SESSION_NOT_FOUND"}}

\* the action ends: its result, what it wrote to stderr, its exit code
CliEnd(result, lines, code) ==
    /\ cliPc' = "exited"
    /\ cliResult' = result
    /\ cliErr' = cliErr \o lines
    /\ cliExits' = Append(cliExits, code)

\* the action starts: resetStdinGuard(), buildIO, initClient
CliInvoke ==
    \E opts \in CliOptions, configOk \in BOOLEAN, clientOk \in BOOLEAN :
        /\ cliPc \in {"idle", "exited"}
        /\ cliRuns < MaxRuns
        /\ cliRuns' = cliRuns + 1
        /\ stdinConsumed' = FALSE
        /\ cliOpts' = opts
        /\ cliDiff' = Undef
        /\ LET configLines == IF configOk THEN <<>> ELSE <<<<"Config error", <<>>>>>>
           IN IF ~clientOk
              THEN /\ cliPc' = "exited"
                   /\ cliResult' = CliResult("init", FALSE, FALSE, <<"message">>)
                   /\ cliErr' = configLines \o <<<<"Error", <<"Failed to initialize Codex client">>>>>>
                   /\ cliExits' = <<1>>
              ELSE /\ cliPc' = IF Truthy(opts.diff) THEN "reading" ELSE "executing"
                   /\ cliResult' = NoCliResult
                   /\ cliErr' = configLines
                   /\ cliExits' = <<>>
        /\ UNCHANGED <<rd, rLog, chunkVars, storeVars, handlerVars, clientVars, mergeVars>>

\* await readInput(opts.diff)
CliInputRead ==
    \E input \in ReadResults(cliOpts.diff, stdinConsumed) :
        /\ cliPc = "reading"
        /\ stdinConsumed' = StdinLatch(cliOpts.diff, stdinConsumed)
        /\ IF ~input.ok
           THEN /\ CliEnd(CliResult("input", FALSE, FALSE, <<input.text>>),
                          <<<<"Error", <<input.text>>>>>>, 1)
                /\ UNCHANGED cliDiff
           ELSE /\ cliPc' = "executing"
                /\ cliDiff' = input.text
                /\ UNCHANGED <<cliResult, cliErr, cliExits>>
        /\ UNCHANGED <<cliOpts, cliRuns, rd, rLog, chunkVars, storeVars, handlerVars,
                       clientVars, mergeVars>>

\* execute(): await resolvePrecommitDiff
CliDiffResolved ==
    \E git \in GitResults :
        /\ cliPc = "executing"
        /\ LET diffResult == resolvePrecommitDiff(cliDiff, ~Truthy(cliOpts.diff), git)
               result == CliResult("diff", FALSE, FALSE, diffResult.error)
           IN IF ~diffResult.ok
              THEN /\ CliEnd(result, HandlerStderr(result, cliOpts.json), HandlerExit(result))
                   /\ UNCHANGED cliDiff
              ELSE /\ cliPc' = "reviewing"
                   /\ cliDiff' = diffResult.data
                   /\ UNCHANGED <<cliResult, cliErr, cliExits>>
        /\ UNCHANGED <<cliOpts, cliRuns, stdinVars, chunkVars, storeVars, handlerVars,
                       clientVars, mergeVars>>

\* execute(): client.reviewPrecommit returns; the handler prints and exits
CliReviewed ==
    \E result \in CliReviewResults :
        /\ cliPc = "reviewing"
        /\ (cliDiff = "" => result = CliResult("review", TRUE, TRUE, <<>>))
        /\ CliEnd(result, HandlerStderr(result, cliOpts.json), HandlerExit(result))
        /\ UNCHANGED <<cliOpts, cliDiff, cliRuns, stdinVars, chunkVars, storeVars,
                       handlerVars, clientVars, mergeVars>>

\* execute() throws: runCli rejects and the entry point exits with 1
CliThrows ==
    /\ cliPc = "reviewing"
    /\ cliDiff # ""
    /\ CliEnd(CliResult("throw", FALSE, FALSE, <<"message">>), <<<<"thrown", <<"message">>>>>>, 1)
    /\ UNCHANGED <<cliOpts, cliDiff, cliRuns, stdinVars, chunkVars, storeVars,
                   handlerVars, clientVars, mergeVars>>

InitCli ==
    /\ ChunkIdle
    /\ StoreEmpty
    /\ HandlersIdle
    /\ ClientIdle
    /\ MergeIdle
    /\ cliPc = "idle"
    /\ cliOpts = [diff |-> Undef, session |-> Undef, json |-> FALSE]
    /\ cliDiff = Undef
    /\ cliResult = NoCliResult
    /\ cliExits = <<>>
    /\ cliErr = <<>>
    /\ cliRuns = 0
    /\ stdinConsumed \in BOOLEAN
    /\ rd = <<>>
    /\ rLog = <<>>

NextCli ==
    \/ CliInvoke
    \/ CliInputRead
    \/ CliDiffResolved
    \/ CliReviewed
    \/ CliThrows

SpecCli == InitCli /\ [][NextCli]_vars

----------------------------------------------------------------------------
(* The query tools review_status and review_history, over a store that the *)
(* session operations and saveReview fill.                                 *)

MaxReviews == 2         \* rows of the reviews table
DefaultLastN == 10      \* args.last_n ?? 10
NoLastN == 0            \* last_n is absent (a last_n given is positive)

ReviewRows == [session_id : {"a", "b"}, type : {"plan"}]

\* a lookup that creates the row it does not find
SelectSessionCreates(tbl, id) ==
    [tbl |-> getOrCreateSession(tbl, id, 0),
     row |-> <<getOrCreateSession(tbl, id, 0)[id]>>]

\* db.prepare('SELECT ... FROM sessions WHERE session_id = ?').get(id): the
\* table after the statement and the row, Null for undefined
SelectSession(tbl, id) ==
    [tbl |-> tbl, row |-> IF HasRow(tbl, id) THEN <<tbl[id]>> ELSE Null]

\* Math.round of the difference in seconds; Date.now() for a row in progress
elapsedSeconds(row, now) ==
    IF row.completed_at # Null      \* if (row.completed_at)
    THEN row.completed_at[1] - row.created_at
    ELSE now - row.created_at

\* the object review_status returns as JSON text
StatusBody(row, id, now) ==
    IF row = Null                   \* if (!row)
    THEN [status |-> "not_found", session_id |-> id]
    ELSE [status |-> row[1].status, session_id |-> id,
          elapsed_seconds |-> elapsedSeconds(row[1], now)]

RECURSIVE SelectRows(_, _)
\* the rows of the log with the session_id, ORDER BY id ASC
SelectRows(log, sessionId) ==
    IF log = <<>> THEN <<>>
    ELSE (IF Head(log).session_id = sessionId THEN <<Head(log)>> ELSE <<>>)
           \o SelectRows(Tail(log), sessionId)

getReviewsBySession(log, sessionId) == SelectRows(log, sessionId)

\* ORDER BY id DESC LIMIT ?
getRecentReviews(log, limit) ==
    LET n == IF Len(log) < limit THEN Len(log) ELSE limit
    IN [k \in 1..n |-> log[Len(log) + 1 - k]]

\* the rows review_history returns as JSON text
HistoryBody(log, sessionId, lastN) ==
    IF Truthy(sessionId)            \* if (args.session_id)
    THEN getReviewsBySession(log, sessionId)
    ELSE getRecentReviews(log, IF lastN = NoLastN THEN DefaultLastN ELSE lastN)

QueryError == [isError |-> TRUE, body |-> UnexpectedText("message")]

StoreSaveReview ==
    \E row \in ReviewRows :
        /\ Len(reviews) < MaxReviews
        /\ reviews' = saveReview(reviews, row)
        /\ sLast' = [op |-> "saveReview", id |-> row.session_id, ret |-> "ok"]
        /\ UNCHANGED <<sessions, clock, chunkVars, handlerVars, clientVars, mergeVars,
                       cliVars, stdinVars>>

\* the review_status handler
ReviewStatus ==
    \E id \in Ids, throws \in BOOLEAN :
        /\ LET selected == SelectSession(sessions, id)
           IN /\ sessions' = IF throws THEN sessions ELSE selected.tbl
              /\ sLast' = [op |-> "review_status", id |-> id,
                           ret |-> IF throws THEN QueryError
                                   ELSE [isError |-> FALSE,
                                         body |-> StatusBody(selected.row, id, clock)]]
        /\ UNCHANGED <<reviews, clock, chunkVars, handlerVars, clientVars, mergeVars,
                       cliVars, stdinVars>>

\* the review_history handler
ReviewHistory ==
    \E id \in Ids \cup {Undef}, lastN \in {NoLastN, 1}, throws \in BOOLEAN :
        /\ sLast' = [op |-> "review_history", id |-> id,
                     ret |-> IF throws
                             THEN [isError |-> TRUE,
                                   body |-> ErrorText("STORAGE_ERROR", "message")]
                             ELSE [isError |-> FALSE,
                                   body |-> HistoryBody(reviews, id, lastN)]]
        /\ UNCHANGED <<sessions, reviews, clock, chunkVars, handlerVars, clientVars,
                       mergeVars, cliVars, stdinVars>>

InitQuery ==
    /\ ChunkIdle
    /\ StoreEmpty
    /\ CliIdle
    /\ StdinIdle
    /\ HandlersIdle
    /\ ClientIdle
    /\ MergeIdle

NextQuery ==
    \/ StoreActivate
    \/ StoreMarkCompleted
    \/ StoreSaveReview
    \/ ReviewStatus
    \/ ReviewHistory

SpecQuery == InitQuery /\ [][NextQuery]_vars




----------------------------------------------------------------------------
(* Claims about the chunker (SpecChunk) *)

HunkCount(file) == Cardinality(LineStarts(file, "H"))

\* no file section of d is both over the budget and made of several hunks
NoHunkSplit(d, n) ==
    LET files == splitByFileHeaders(d)
    IN \A i \in 1..Len(files) :
          estimateTokens(files[i]) <= n \/ HunkCount(files[i]) <= 1

EndsWithNewline(d) == Len(d) > 0 /\ d[Len(d)] = "N"

C10_ChunksStartWithHeader ==
    (cPc = "done" /\ StartsWith(cDiff, "D"))
    => \A i \in 1..Len(cChunks) : StartsWith(cChunks[i], "D")

C10_Witness ==
    /\ cPc = "done"
    /\ StartsWith(cDiff, "D")
    /\ ~NoHunkSplit(cDiff, cMax)
    /\ cMax > 0
    /\ Len(cChunks) > 1
    /\ \A i \in 1..Len(cChunks) :
          StartsWith(cChunks[i], "D") /\ HunkCount(cChunks[i]) >= 1

SingleFile(d) == StartsWith(d, "D") /\ Cardinality(LineStarts(d, "D")) = 1

\* the text of t before its first hunk marker, without the line's newline
HeaderOf(t) ==
    LET indices == SortedSeq(LineStarts(t, "H"))
    IN StripNewline(SubSeq(t, 1, indices[1] - 1))

\* the hunks of t, each without its last newline
HunksOf(t) ==
    LET hunks == Sections(t, SortedSeq(LineStarts(t, "H")))
    IN {hunks[i] : i \in 1..Len(hunks)}

\* the hunks a chunk carries: newlines separate them, none ends the chunk
JoinedHunks(chunk) ==
    LET indices == SortedSeq(LineStarts(chunk, "H"))
    IN {IF i < Len(indices)
        THEN SubSeq(chunk, indices[i], indices[i + 1] - 2)
        ELSE SubSeq(chunk, indices[i], Len(chunk)) : i \in 1..Len(indices)}

\* chunk is the header of file d followed by some of its hunks
HeaderAndHunks(chunk, d) ==
    /\ HunkCount(chunk) >= 1
    /\ HeaderOf(chunk) = HeaderOf(d)
    /\ JoinedHunks(chunk) \subseteq HunksOf(d)

\* C11 as stated: a single file over the budget with more than one hunk is
\* returned as more than one chunk, each the file's header followed by a
\* non-empty subset of its hunks.
C11_OversizedFileAlwaysSplit ==
    (/\ cPc = "done"
     /\ cMax > 0
     /\ SingleFile(cDiff)
     /\ estimateTokens(cDiff) > cMax
     /\ HunkCount(cDiff) > 1)
    => /\ Len(cChunks) > 1
       /\ \A i \in 1..Len(cChunks) : HeaderAndHunks(cChunks[i], cDiff)

\* a single file over the budget, not ending with a newline, that is split
\* into one chunk per hunk
C11_Witness ==
    /\ cPc = "done"
    /\ cMax > 0
    /\ SingleFile(cDiff)
    /\ ~EndsWithNewline(cDiff)
    /\ estimateTokens(cDiff) > cMax
    /\ HunkCount(cDiff) = 2
    /\ Len(cChunks) = 2
    /\ \A i \in 1..2 : HeaderAndHunks(cChunks[i], cDiff) /\ HunkCount(cChunks[i]) = 1

----------------------------------------------------------------------------
(* Claims about the session store (SpecStore) *)

RowInvariant(row) ==
    /\ (row.completed_at # Null) <=> (row.status # "in_progress")
    /\ row.completed_at # Null => row.completed_at[1] >= row.created_at

\* C3: in every state reachable from the empty store by get_or_create,
\* activate, mark_completed and mark_failed, every row has completed_at
\* non-null iff its status is not in_progress, and completed_at >= created_at.
C3_RowsWellFormed == \A id \in DOMAIN sessions : RowInvariant(sessions[id])

C3_Witness ==
    /\ sLast.op = "activateSession"
    /\ HasRow(sessions, sLast.id)
    /\ sessions[sLast.id].created_at < clock
    /\ \E id \in DOMAIN sessions :
          /\ sessions[id].status = "failed"
          /\ sessions[id].completed_at[1] > sessions[id].created_at
    /\ \E id \in DOMAIN sessions : sessions[id].status = "completed"

----------------------------------------------------------------------------
(* Claims about the tool-call handlers and the session tracker (Spec) *)

IsTerminal(wr) == wr.op \in {"markCompleted", "markFailed"}

Terminals(writes) == {i \in 1..Len(writes) : IsTerminal(writes[i])}

Issued(writes, op) == {i \in 1..Len(writes) : writes[i].op = op}

\* C1: over its whole run a review handler issues at most one terminal
\* session-store write (mark_completed or mark_failed), whether the client
\* returned a result, returned an error or threw.
C1_AtMostOneTerminalWrite ==
    /\ \A r \in Reqs : Terminals(req[r].writes) = {}
    /\ ret.pc = "returned" => Cardinality(Terminals(ret.writes)) <= 1

C1_Witness ==
    /\ ret.pc = "returned"
    /\ ret.client = "err"
    /\ Len(ret.writes) = 2
    /\ ret.writes[1].op = "activate"
    /\ ret.writes[2].op = "markFailed"

\* C2: recordSuccess after a preflight(X) that succeeded issues mark_completed
\* for X, whatever id the result carries; without a preflight id it issues
\* mark_completed for the result's id.
C2_CompletesPreflightId ==
    (ret.pc = "returned" /\ ret.client = "ok" /\ db)
    => /\ Cardinality(Issued(ret.writes, "markCompleted")) = 1
       /\ \A i \in Issued(ret.writes, "markCompleted") :
             ret.writes[i].id = IF ret.preflightId # Undef THEN ret.preflightId
                                ELSE ret.resultId

C2_Witness ==
    /\ ret.pc = "returned"
    /\ ret.client = "ok"
    /\ ret.preflightId = "a"
    /\ ret.resultId = "b"
    /\ \E i \in Issued(ret.writes, "markCompleted") :
          ret.writes[i].id = "a" /\ ret.writes[i].ok
    /\ sessions["a"].status = "completed"

----------------------------------------------------------------------------
(* Claims about the reviewer client *)

LastIsRun == kLog # <<>> /\ kLog[Len(kLog)].op = "run"

\* the turns run on thread t
Runs(t) == {i \in 1..Len(kLog) : kLog[i].op = "run" /\ kLog[i].thread = t}

Failed(turn) == turn.kind \in {"malformed", "invalid"}

\* the sessionId runReview was called with, as the SDK saw it
SessionIdOf(t) == IF kLog[t].op = "resumeThread" THEN kLog[t].id ELSE Undef

RetryDiscipline ==
    /\ \A t \in 1..Len(kLog) :
        /\ Cardinality(Runs(t)) <= 2
        /\ \A i, j \in Runs(t) : kLog[i].prompt = kLog[j].prompt
    /\ LastIsRun =>
        /\ Cardinality(Runs(kThread)) = 2 => kLastError # Undef
        /\ (Cardinality(Runs(kThread)) = 1 /\ Failed(kTurn)) =>
                /\ kPc = "turn"
                /\ kAttempt = 1
        /\ (Cardinality(Runs(kThread)) = 2 /\ Failed(kTurn)) =>
                /\ kPc = "done"
                /\ kRun = Err("CODEX_PARSE_ERROR", FailureMessage(kTurn.kind))
                /\ kResult = kRun

\* C4 as stated: a runReview call runs at most 2 turns; a second turn is run,
\* with the same prompt on the same thread, exactly when the first response
\* fails parsing or validation; two failures give CODEX_PARSE_ERROR with the
\* last failure's message; a valid response on either attempt gives success.
C4_ValidAlwaysSucceeds ==
    /\ RetryDiscipline
    /\ (LastIsRun /\ kTurn.kind = "valid") => kRun.ok

\* C4: as above, but a valid response gives success only when a session id
\* can be resolved (thread.id is a non-empty string, or it is null and the
\* call resumed a non-empty session id); otherwise the result is
\* CODEX_PARSE_ERROR (missing session ID).
C4_RetryOnce ==
    /\ RetryDiscipline
    /\ (LastIsRun /\ kTurn.kind = "valid") =>
        LET resolvedId == IF kTurn.tid # NullId THEN kTurn.tid
                          ELSE SessionIdOf(kThread)
        IN IF resolvedId \in {"", Undef}
           THEN kRun = Err("CODEX_PARSE_ERROR", "missing session ID")
           ELSE kRun = Ok(resolvedId, 0)

C4_Witness ==
    /\ LastIsRun
    /\ Cardinality(Runs(kThread)) = 2
    /\ kLastError = "schema error"
    /\ kTurn.kind = "valid"
    /\ kRun.ok

\* C5: a turn that needs more than timeout_seconds ends the review call with
\* CODEX_TIMEOUT.
C5_TimeoutCode ==
    (LastIsRun /\ kTurn.need > TimeoutSeconds) =>
        /\ kPc = "done"
        /\ kResult.code = "CODEX_TIMEOUT"

C5_Witness ==
    /\ LastIsRun
    /\ kTurn.need > TimeoutSeconds
    /\ kAttempt = 1
    /\ kResult.code = "CODEX_TIMEOUT"

AbortShaped(e) ==
    e.isError /\ (e.name = "AbortError"
                  \/ \E i \in 1..Len(e.message) :
                        e.message[i] \in {"aborted", "Aborted", "ABORTED"})

\* C6: a turn that throws an error named AbortError, or with a message that
\* contains "aborted" in any case, ends the review call with CODEX_TIMEOUT
\* whatever the classifier would say, and no further turn is run.
C6_AbortShortCircuits ==
    (LastIsRun /\ kTurn.kind = "threw" /\ AbortShaped(kTurn.thrown)) =>
        /\ kPc = "done"
        /\ kRun.code = "CODEX_TIMEOUT"
        /\ kResult = kRun

C6_Witness ==
    /\ LastIsRun
    /\ kTurn.kind = "threw"
    /\ kTurn.thrown.name = "Error"
    /\ kTurn.thrown.message = <<"ABORTED", "401">>
    /\ classifyError(kTurn.thrown) = "AUTH_ERROR"
    /\ kResult.code = "CODEX_TIMEOUT"

\* the thread acquisitions among the first n SDK calls
Acquisitions(n) == {i \in 1..n : kLog[i].op # "run"}

\* the k-th thread acquisition
Acquisition(k) ==
    CHOOSE i \in 1..Len(kLog) :
        kLog[i].op # "run" /\ Cardinality(Acquisitions(i)) = k

ChunkOrder ==
    /\ \A i \in 1..Len(kLog) :
        kLog[i].op = "run" =>
            /\ kLog[i].prompt.chunk = Cardinality(Acquisitions(i))
            /\ kLog[i].prompt.payload = kChunks[kLog[i].prompt.chunk]
            /\ kLog[i].thread = Acquisition(kLog[i].prompt.chunk)
    /\ \A k \in 2..Cardinality(Acquisitions(Len(kLog))) :
        /\ kLog[Acquisition(k)].op = "resumeThread"
        /\ kLog[Acquisition(k)].id = kResults[k - 1]
    /\ (kPc = "done" /\ kResult.ok) =>
        /\ Len(kResults) = Len(kChunks)
        /\ kResult.session_id = kResults[Len(kChunks)]

\* C7 as stated: chunks are reviewed one at a time in index order; the first
\* chunk starts a thread when the caller gave no session_id and resumes the
\* caller's id otherwise; each later chunk resumes the id the preceding chunk
\* returned; the merged session_id is the last chunk's.
C7_ResumesAnyCallerId ==
    Len(kChunks) > 1 =>
        /\ ChunkOrder
        /\ kLog # <<>> =>
            IF kIn.session_id = Undef
            THEN kLog[1].op = "startThread"
            ELSE kLog[1].op = "resumeThread" /\ kLog[1].id = kIn.session_id

\* C7: as above, but the first chunk starts a thread when the caller gave no
\* session_id or an empty one, and resumes the caller's id otherwise.
C7_ChunksInOrderOnOneSession ==
    Len(kChunks) > 1 =>
        /\ ChunkOrder
        /\ kLog # <<>> =>
            IF kIn.session_id \in {Undef, ""}
            THEN kLog[1].op = "startThread"
            ELSE kLog[1].op = "resumeThread" /\ kLog[1].id = kIn.session_id

C7_Witness ==
    /\ Len(kChunks) = 3
    /\ kPc = "done"
    /\ kResult.ok
    /\ kIn.session_id = "a"
    /\ kResults = <<"b", "a", "b">>
    /\ kResult.session_id = "b"

\* C8: when the review of a chunk of a multi-chunk review returns an error,
\* the whole review returns that error and nothing more is sent to the SDK.
C8_ChunkErrorPropagates ==
    (Len(kChunks) > 1 /\ ~kRun.ok /\ kRun # NoResult) =>
        /\ kPc = "done"
        /\ kResult = kRun
        /\ \A i \in 1..Len(kLog) : kLog[i].op = "run" => kLog[i].prompt.chunk <= kI
        /\ Cardinality(Acquisitions(Len(kLog))) = kI

C8_Witness ==
    /\ Len(kChunks) = 3
    /\ kI = 2
    /\ Len(kResults) = 1
    /\ kPc = "done"
    /\ kRun.code = "RATE_LIMITED"
    /\ kResult = kRun

----------------------------------------------------------------------------
(* Claims about the merged results (SpecMerge) *)

\* approve < request_changes < reject
VerdictOrder == <<"approve", "request_changes", "reject">>

Position(order, x) == CHOOSE i \in 1..Len(order) : order[i] = x

\* C12: the verdict of a merged code review is the greatest of the chunk
\* verdicts under approve < request_changes < reject.
C12_VerdictIsMax ==
    (mPc = "done" /\ mKind = "code") =>
        /\ \E i \in 1..Len(mIn) : mIn[i].verdict = mOut.verdict
        /\ \A i \in 1..Len(mIn) :
              Position(VerdictOrder, mIn[i].verdict)
                  <= Position(VerdictOrder, mOut.verdict)

C12_Witness ==
    /\ mPc = "done"
    /\ mKind = "code"
    /\ Len(mIn) = 3
    /\ mIn[1].verdict = "request_changes"
    /\ mIn[2].verdict = "reject"
    /\ mIn[3].verdict = "approve"
    /\ mOut.verdict = "reject"

\* the findings of all chunks, in chunk order
RECURSIVE AllFindings(_)
AllFindings(results) ==
    IF results = <<>> THEN <<>>
    ELSE Head(results).findings \o AllFindings(Tail(results))

Keyed(f) == f.file # NullString /\ f.line # NullLine

SameKey(f, g) == f.file = g.file /\ f.line = g.line /\ f.category = g.category

\* nitpick < minor < major < critical
SeverityOrder == <<"nitpick", "minor", "major", "critical">>

\* C13: of the findings that share one (file, line, category) with file and
\* line not null, exactly one is in the merged findings, and no finding with
\* that key is more severe than it.
C13_OneSurvivorPerKey ==
    (mPc = "done" /\ mKind = "code") =>
        LET in == AllFindings(mIn)
            out == mOut.findings
        IN \A i \in 1..Len(in) :
              Keyed(in[i]) =>
                /\ Cardinality({j \in 1..Len(out) : SameKey(out[j], in[i])}) = 1
                /\ \A j \in 1..Len(out) :
                      SameKey(out[j], in[i]) =>
                          Position(SeverityOrder, out[j].severity)
                              >= Position(SeverityOrder, in[i].severity)

\* a minor and a critical finding of one key, from two chunks, merged into
\* the critical one
C13_Witness ==
    /\ mPc = "done"
    /\ mKind = "code"
    /\ Len(mIn) = 2
    /\ Len(mIn[1].findings) = 1
    /\ Len(mIn[2].findings) = 1
    /\ SameKey(mIn[1].findings[1], mIn[2].findings[1])
    /\ Keyed(mIn[1].findings[1])
    /\ mIn[1].findings[1].severity = "minor"
    /\ mIn[2].findings[1].severity = "critical"
    /\ mOut.findings = <<mIn[2].findings[1]>>

Keyless(f) == ~Keyed(f)

\* C14: the findings whose file or line is null are all in the merged
\* findings, as often as they were reported and in their original order, and
\* they come after every finding that has a key.
C14_KeylessPreserved ==
    (mPc = "done" /\ mKind = "code") =>
        LET in == AllFindings(mIn)
            out == mOut.findings
        IN /\ SelectSeq(out, Keyless) = SelectSeq(in, Keyless)
           /\ \A i, j \in 1..Len(out) :
                 (i < j /\ Keyless(out[i])) => Keyless(out[j])

C14_Witness ==
    /\ mPc = "done"
    /\ mKind = "code"
    /\ LET in == AllFindings(mIn)
       IN /\ Len(in) = 3
          /\ Keyless(in[1])
          /\ Keyed(in[2])
          /\ in[3] = in[1]
          /\ mOut.findings = <<in[2], in[1], in[3]>>

\* the notes of all chunks under field, in chunk order
RECURSIVE AllNotes(_, _)
AllNotes(results, field) ==
    IF results = <<>> THEN <<>>
    ELSE Head(results)[field] \o AllNotes(Tail(results), field)

\* C15: a merged precommit result is ready to commit exactly when every
\* chunk is, and its blockers and warnings are the chunks' lists one after
\* the other, in chunk order, with nothing removed.
C15_PrecommitMerge ==
    (mPc = "done" /\ mKind = "precommit") =>
        /\ mOut.ready_to_commit <=> \A i \in 1..Len(mIn) : mIn[i].ready_to_commit
        /\ mOut.blockers = AllNotes(mIn, "blockers")
        /\ mOut.warnings = AllNotes(mIn, "warnings")

C15_Witness ==
    /\ mPc = "done"
    /\ mKind = "precommit"
    /\ Len(mIn) = 3
    /\ mIn[1].ready_to_commit
    /\ ~mIn[2].ready_to_commit
    /\ mIn[3].ready_to_commit
    /\ ~mOut.ready_to_commit
    /\ mOut.blockers = <<"p", "p">>
    /\ mIn[1].blockers = <<"p">>
    /\ mIn[3].blockers = <<"p">>
    /\ mOut.warnings = <<"q">>

----------------------------------------------------------------------------
(* More claims about the reviewer client (SpecClient) *)

OnlyWhitespace(d) == \A i \in 1..Len(d) : d[i] = "N"

\* C16: a code or precommit review of an empty or whitespace-only diff
\* returns the synthetic success (approve without findings, or ready to
\* commit without blockers) with the caller's session_id, or "" when the
\* caller gave none, and makes no call to the SDK.
C16_EmptyDiffSynthetic ==
    (kIn.kind \in {"code", "precommit"} /\ OnlyWhitespace(kIn.diff)) =>
        /\ kLog = <<>>
        /\ kPc \in {"call", "done"}
        /\ kPc = "done" =>
            /\ kResult.ok
            /\ kResult.session_id
                 = (IF kIn.session_id = Undef THEN "" ELSE kIn.session_id)
            /\ kResult.chunks_reviewed = NoChunksReviewed
            /\ kIn.kind = "code" =>
                    kResult.data.verdict = "approve" /\ kResult.data.findings = <<>>
            /\ kIn.kind = "precommit" =>
                    kResult.data.ready_to_commit /\ kResult.data.blockers = <<>>

C16_Witness ==
    /\ kIn.kind = "precommit"
    /\ kIn.diff = <<"N">>
    /\ kIn.session_id = "a"
    /\ kPc = "done"
    /\ kResult.session_id = "a"
    /\ kLog = <<>>

\* C17: a successful code or precommit review carries chunks_reviewed = N
\* when the diff was split into N > 1 chunks, and no chunks_reviewed when the
\* diff gave one chunk or none.
C17_ChunksReviewed ==
    (kPc = "done" /\ kResult.ok /\ kIn.kind \in {"code", "precommit"}) =>
        IF Len(kChunks) > 1
        THEN kResult.chunks_reviewed = Len(kChunks)
        ELSE kResult.chunks_reviewed = NoChunksReviewed

C17_Witness ==
    /\ kPc = "done"
    /\ kResult.ok
    /\ kIn.kind = "code"
    /\ Len(kChunks) = 3
    /\ kResult.chunks_reviewed = 3

\* the sessionId the runReview call that made SDK call t was given
SessionIdParam(t) ==
    LET k == Cardinality(Acquisitions(t))
    IN IF k = 1 THEN kIn.session_id ELSE kResults[k - 1]

\* the acquisition that threw ends the call without a turn
RefusalDiscipline ==
    (kTurn.kind = "refused" /\ kLog # <<>> /\ kLog[Len(kLog)].op # "run") =>
        /\ kPc = "done"
        /\ kResult = kRun
        /\ Runs(Len(kLog)) = {}
        /\ kLog[Len(kLog)].op = "resumeThread" => kRun.code = "SESSION_NOT_FOUND"
        /\ kLog[Len(kLog)].op = "startThread" =>
                /\ kRun.code = classifyError(kTurn.thrown)
                /\ kRun.code # "SESSION_NOT_FOUND"

\* C18 as stated: a runReview call given a session_id resumes exactly that
\* id and does not start a thread, a call without one starts a thread and
\* does not resume; resume_thread throwing gives SESSION_NOT_FOUND,
\* start_thread throwing gives the classifier's code; no turn is run then.
C18_ResumesAnyGivenId ==
    /\ \A t \in Acquisitions(Len(kLog)) :
          IF SessionIdParam(t) # Undef
          THEN kLog[t].op = "resumeThread" /\ kLog[t].id = SessionIdParam(t)
          ELSE kLog[t].op = "startThread"
    /\ RefusalDiscipline

\* C18: the same, where a call given the empty string as session_id counts
\* as a call without one.
C18_ThreadAcquisition ==
    /\ \A t \in Acquisitions(Len(kLog)) :
          IF SessionIdParam(t) \notin {Undef, ""}
          THEN kLog[t].op = "resumeThread" /\ kLog[t].id = SessionIdParam(t)
          ELSE kLog[t].op = "startThread"
    /\ RefusalDiscipline

C18_Witness ==
    /\ kTurn.kind = "refused"
    /\ kLog = <<[op |-> "startThread", id |-> Undef, thread |-> 1, prompt |-> <<>>]>>
    /\ kTurn.thrown.message = <<"401">>
    /\ kResult.code = "AUTH_ERROR"
    /\ kPc = "done"

\* C19 as stated: after a valid response the result carries the thread's id
\* when that is not null, and the caller's session_id otherwise; when both
\* are absent the result is CODEX_PARSE_ERROR (missing session ID).
C19_AnyReportedId ==
    (LastIsRun /\ kTurn.kind = "valid") =>
        IF kTurn.tid # NullId
        THEN kRun = Ok(kTurn.tid, NoChunksReviewed)
        ELSE IF SessionIdParam(kThread) # Undef
        THEN kRun = Ok(SessionIdParam(kThread), NoChunksReviewed)
        ELSE kRun = Err("CODEX_PARSE_ERROR", "missing session ID")

\* C19: after a valid response the result carries the thread's id when that
\* is a non-empty string, and the caller's session_id when the thread's id is
\* null and the caller's is a non-empty string; in every other case the
\* result is CODEX_PARSE_ERROR (missing session ID).
C19_SessionIdResolution ==
    (LastIsRun /\ kTurn.kind = "valid") =>
        IF kTurn.tid \notin {NullId, ""}
        THEN kRun = Ok(kTurn.tid, NoChunksReviewed)
        ELSE IF kTurn.tid = NullId /\ SessionIdParam(kThread) \notin {Undef, ""}
        THEN kRun = Ok(SessionIdParam(kThread), NoChunksReviewed)
        ELSE kRun = Err("CODEX_PARSE_ERROR", "missing session ID")

C19_Witness ==
    /\ LastIsRun
    /\ kTurn.kind = "valid"
    /\ kTurn.tid = NullId
    /\ Len(kChunks) = 1
    /\ kIn.session_id = "a"
    /\ kResult = Ok("a", NoChunksReviewed)

----------------------------------------------------------------------------
(* More claims about the session store (SpecStore) *)

\* C20: activate(id) leaves the row of id in_progress with completed_at
\* null; a row that existed keeps its created_at, a missing row is created.
C20_ActivateResets ==
    [][(sLast'.op = "activateSession" /\ clock' = clock) =>
          LET id == sLast'.id
          IN /\ id \in DOMAIN sessions'
             /\ sessions'[id].status = "in_progress"
             /\ sessions'[id].completed_at = Null
             /\ id \in DOMAIN sessions =>
                    sessions'[id].created_at = sessions[id].created_at
             /\ sLast'.ret = sessions'[id]]_vars

\* a row created earlier, just activated
C20_Witness ==
    /\ sLast.op = "activateSession"
    /\ sLast.id \in DOMAIN sessions
    /\ sessions[sLast.id].created_at < clock
    /\ sessions[sLast.id].status = "in_progress"
    /\ sessions[sLast.id].completed_at = Null

\* C21: get_or_create(id) on an id that has a row returns the row and
\* changes nothing; no operation changes a row's created_at, so two calls
\* for one id return the same created_at.
C21_GetOrCreateIdempotent ==
    [][/\ (sLast'.op = "getOrCreateSession" /\ clock' = clock
             /\ sLast'.id \in DOMAIN sessions) =>
            /\ sessions' = sessions
            /\ sLast'.ret = sessions[sLast'.id]
       /\ (sLast'.op = "getOrCreateSession" /\ clock' = clock) =>
            /\ sLast'.id \in DOMAIN sessions'
            /\ sLast'.ret = sessions'[sLast'.id]
       /\ \A id \in DOMAIN sessions :
            /\ id \in DOMAIN sessions'
            /\ sessions'[id].created_at = sessions[id].created_at]_vars

\* a completed row created earlier, just returned by get_or_create
C21_Witness ==
    /\ sLast.op = "getOrCreateSession"
    /\ sLast.id \in DOMAIN sessions
    /\ sLast.ret = sessions[sLast.id]
    /\ sLast.ret.status = "completed"
    /\ sLast.ret.created_at < clock

\* C22: mark_completed(id) and mark_failed(id) on an id without a row return
\* ok, create no row and change no row.
C22_MarkMissingIsNoOp ==
    [][(sLast'.op \in {"markSessionCompleted", "markSessionFailed"}
          /\ clock' = clock /\ sLast'.id \notin DOMAIN sessions) =>
            /\ sessions' = sessions
            /\ sLast'.ret = "ok"]_vars

C22_Witness ==
    /\ sLast.op = "markSessionFailed"
    /\ sLast.ret = "ok"
    /\ sLast.id \notin DOMAIN sessions
    /\ \E id \in DOMAIN sessions : sessions[id].status = "completed"

----------------------------------------------------------------------------------------------------------------------------------------
\* C23: when activateSession fails in preflight(X) the tracker does not
\* remember X: the request carries no preflightId, and a response after
\* recordFailure or recordFailureBestEffort has issued no markSessionFailed.
C23_FailedPreflightForgets ==
    /\ \A r \in Reqs :
          (\E i \in Issued(req[r].writes, "activate") : ~req[r].writes[i].ok)
              => req[r].preflightId = Undef
    /\ (/\ ret.pc = "returned"
        /\ \E i \in Issued(ret.writes, "activate") : ~ret.writes[i].ok)
           => /\ ret.preflightId = Undef
              /\ Issued(ret.writes, "markFailed") = {}

C23_Witness ==
    /\ ret.pc = "returned"
    /\ ret.client = "err"
    /\ ret.session_id = "a"
    /\ ret.writes = <<[op |-> "activate", id |-> "a", ok |-> FALSE]>>

\* C24: when the client returns a review the handler returns it without
\* isError whichever store operations fail, and with a database saveReview and
\* markSessionCompleted are each issued once, after getOrCreateSession when no
\* session was activated.
C24_SuccessSurvivesStoreFailures ==
    (ret.pc = "returned" /\ ret.client = "ok") =>
        /\ ~ret.isError
        /\ ret.text = ResultText
        /\ db =>
             LET n == Len(ret.writes)
             IN /\ n >= 2
                /\ ret.writes[n].op = "markCompleted"
                /\ ret.writes[n - 1].op = "save"
                /\ Cardinality(Issued(ret.writes, "save")) = 1
                /\ Cardinality(Issued(ret.writes, "markCompleted")) = 1
                /\ ~Truthy(ret.preflightId) =>
                      /\ n >= 3
                      /\ ret.writes[n - 2].op = "getOrCreate"
                      /\ Cardinality(Issued(ret.writes, "getOrCreate")) = 1

C24_Witness ==
    /\ ret.pc = "returned"
    /\ ret.client = "ok"
    /\ ~ret.isError
    /\ ret.writes = <<[op |-> "activate", id |-> "a", ok |-> FALSE],
                      [op |-> "getOrCreate", id |-> "b", ok |-> FALSE],
                      [op |-> "save", id |-> "b", ok |-> FALSE],
                      [op |-> "markCompleted", id |-> "b", ok |-> FALSE]>>

\* C25: a response to a client error comes with no saveReview and no
\* getOrCreateSession issued; markSessionFailed is issued once, for the
\* caller's session_id, when the caller gave one and its activateSession
\* succeeded, and is not issued otherwise.
Activated(writes, id) ==
    \E i \in Issued(writes, "activate") : writes[i].id = id /\ writes[i].ok

C25_ClientErrorMarksCallerSession ==
    (ret.pc = "returned" /\ ret.client = "err") =>
        /\ Issued(ret.writes, "save") = {}
        /\ Issued(ret.writes, "getOrCreate") = {}
        /\ IF ret.session_id # Undef /\ Activated(ret.writes, ret.session_id)
           THEN /\ Cardinality(Issued(ret.writes, "markFailed")) = 1
                /\ \A i \in Issued(ret.writes, "markFailed") :
                      ret.writes[i].id = ret.session_id
           ELSE Issued(ret.writes, "markFailed") = {}

\* the caller's session_id is the empty string: activated, never marked failed
C25_Witness ==
    /\ ret.pc = "returned"
    /\ ret.client = "err"
    /\ ret.session_id = ""
    /\ ret.writes = <<[op |-> "activate", id |-> "", ok |-> TRUE]>>
    /\ sessions[""].status = "in_progress"

\* C26 as stated: whenever a request carries the session_id X of a completed
\* or failed session, X is in_progress once the client has been called and at
\* every later step until the client returns, and completed after a successful
\* return.
Resumed == {"completed", "failed"}

MarkedByReturn(X) ==
    /\ ret'.pc = "returned"
    /\ \E i \in 1..Len(ret'.writes) :
          /\ ret'.writes[i].op \in {"markCompleted", "markFailed"}
          /\ ret'.writes[i].id = X
          /\ ret'.writes[i].ok

C27_DiffResolutionFirst ==
    [][\A r \in Reqs :
         /\ (req'[r].pc = "awaiting" /\ req'[r].kind = "precommit"
                 /\ req[r].pc # "awaiting") => req[r].pc = "resolving"
         /\ req[r].pc = "resolving" =>
               /\ req[r].writes = <<>>
               /\ req[r].preflightId = Undef
               /\ req'[r].pc = "idle" =>
                     /\ sessions' = sessions
                     /\ reviews' = reviews
                     /\ ret'.writes = <<>>
                     /\ ret'.client = "none"
                     /\ ret'.diff \in DOMAIN DiffErrors
                     /\ ret'.diff = "NO_STAGED_CHANGES" =>
                           /\ ~ret'.isError
                           /\ ret'.text = NoStagedText
                           /\ ret'.resultId = IF req[r].session_id = Undef THEN ""
                                              ELSE req[r].session_id]_vars

C27_Witness ==
    /\ ret.pc = "returned"
    /\ ret.diff = "NO_STAGED_CHANGES"
    /\ ret.session_id = "a"
    /\ ret.resultId = "a"
    /\ ~ret.isError
    /\ db
    /\ DOMAIN sessions = {"b"}

\* C30: every response with isError has a text `${code}: ${message}` whose code
\* is one of ErrorCode, and the response to an exception the handler caught
\* has the code UNKNOWN_ERROR.
C30_ErrorTextHasCode ==
    (ret.pc = "returned" /\ ret.isError) =>
        /\ Len(ret.text) = 3
        /\ ret.text[1] \in ErrorCodes
        /\ ret.text[2] = ": "
        /\ ret.client = "throw" => ret.text[1] = "UNKNOWN_ERROR"

\* review_precommit with auto_diff false and no diff
C30_Witness ==
    /\ ret.pc = "returned"
    /\ ret.isError
    /\ ret.diff = "DISABLED"
    /\ ret.text = <<"auto_diff disabled and no diff provided">>

----------------------------------------------------------------------------------------------------------------------------------------
(* Claims about reading input (SpecStdin) *)

Reads == {k \in 1..Len(rLog) : rLog[k].op = "read"}

\* no resetStdinGuard between the calls j and k
SameInvocation(j, k) == \A m \in j..k : rLog[m].op # "reset"

\* C29: of the readInput("-") calls without a resetStdinGuard between them only
\* the first one reads the stream; every later one returns the error "stdin
\* already consumed in this invocation" with nothing read, however the first
\* one ended and even before it has ended.  A file read is never answered by
\* that error, and a readInput("-") that follows only file reads since the
\* last reset reads the stream.
C29_OneStdinReadPerInvocation ==
    /\ \A j \in Reads, k \in Reads :
          (j < k /\ rLog[j].source = "-" /\ rLog[k].source = "-" /\ SameInvocation(j, k)) =>
              /\ ~rLog[k].attached
              /\ rd[rLog[k].i].pc = "settled"
              /\ rd[rLog[k].i].result = StdinConsumedError
              /\ rd[rLog[k].i].chunks = 0
    /\ \A k \in Reads :
          /\ rLog[k].source = "f" =>
                /\ ~rLog[k].attached
                /\ rd[rLog[k].i].pc = "settled"
                /\ rd[rLog[k].i].result # StdinConsumedError
          /\ (/\ rLog[k].source = "-"
              /\ \A j \in Reads : (j < k /\ SameInvocation(j, k)) => rLog[j].source = "f")
                => rLog[k].attached

\* a read that timed out, a file read, and a second read of stdin
C29_Witness ==
    /\ Len(rLog) = 3
    /\ rLog[1] = LogRead("-", TRUE, 1)
    /\ rLog[2] = LogRead("f", FALSE, 2)
    /\ rLog[3] = LogRead("-", FALSE, 3)
    /\ rd[1].result = StdinTimeoutError
    /\ rd[2].result = ReadOk("d")
    /\ rd[3].result = StdinConsumedError

----------------------------------------------------------------------------------------------------------------------------------------
(* Claims about the CLI (SpecCli) *)

----------------------------------------------------------------------------------------------------------------------------------------
(* Claims about the query tools (SpecQuery) *)

Queries == {"review_status", "review_history"}

\* C31: a call of review_status or review_history leaves the sessions table
\* and the reviews table as they were, whatever its arguments and whether or
\* not the query throws; review_status on an id without a row answers
\* {status: "not_found", session_id} with no elapsed_seconds and creates no row.
C31_QueriesReadOnly ==
    [][(sLast'.op \in Queries /\ clock' = clock) =>
          /\ sessions' = sessions
          /\ reviews' = reviews
          /\ (/\ sLast'.op = "review_status"
              /\ ~sLast'.ret.isError
              /\ sLast'.id \notin DOMAIN sessions) =>
                /\ sLast'.ret.body = [status |-> "not_found", session_id |-> sLast'.id]
                /\ DOMAIN sLast'.ret.body = {"status", "session_id"}
                /\ sLast'.id \notin DOMAIN sessions']_vars

C31_Witness ==
    /\ sLast.op = "review_status"
    /\ sLast.id = "a"
    /\ sLast.ret = [isError |-> FALSE,
                    body |-> [status |-> "not_found", session_id |-> "a"]]
    /\ DOMAIN sessions = {"b"}
    /\ Len(reviews) = 2

----------------------------------------------------------------------------------------------------------------------------------------
(* Claims about the deadline of a turn (SpecClient) *)

\* C32: every turn, a retry too, has the whole of timeout_seconds to itself:
\* a turn is ended by the timeout only when it has itself run for
\* timeout_seconds, that is when it needed longer than that.
C32_DeadlinePerTurn ==
    (kTurn # NoTurn /\ kTurn.kind = "timeout") => kTurn.need > TimeoutSeconds

\* the retry is cut off although it needs no longer than timeout_seconds
C32_Witness ==
    /\ kTurn # NoTurn
    /\ kTurn.kind = "timeout"
    /\ kTurn.need <= TimeoutSeconds
    /\ kTurn.need > 0
    /\ kAttempt = 1
    /\ kRun.code = "CODEX_TIMEOUT"

----------------------------------------------------------------------------------------------------------------------------------------
(* More claims about the tool-call handlers (Spec) *)

AllOk(writes) == \A i \in 1..Len(writes) : writes[i].ok

\* no request on the session X is in flight
NoneInFlight(X) == \A r \in Reqs : req[r].pc = "idle" \/ req[r].session_id # X

\* C33: when a handler returns for a request whose session_id X (any string)
\* preflight activated, every store operation of the request has succeeded
\* and no other request on X is in flight, X is completed or failed.
C33_ActivatedSessionEnds ==
    (/\ ret.pc = "returned"
     /\ ret.session_id # Undef
     /\ Activated(ret.writes, ret.session_id)
     /\ AllOk(ret.writes)
     /\ NoneInFlight(ret.session_id)) =>
        sessions[ret.session_id].status \in {"completed", "failed"}

\* the client throws for a request with the empty session_id
C33_Witness ==
    /\ ret.pc = "returned"
    /\ ret.client = "throw"
    /\ ret.session_id = ""
    /\ ret.writes = <<[op |-> "activate", id |-> "", ok |-> TRUE]>>
    /\ NoneInFlight("")
    /\ sessions[""].status = "in_progress"

\* another request on the session X overlaps request r: it is in flight, or
\* it was the last to return after r passed preflight (preflight clears ret)
Overlapped(r, X) ==
    \/ \E q \in Reqs \ {r} : req[q].pc # "idle" /\ req[q].session_id = X
    \/ ret.pc = "returned" /\ ret.session_id = X

\* C34: while a request whose preflight activated the caller's session X
\* awaits the client and another request on X overlaps it, X is in_progress.
C34_OverlapInProgress ==
    \A r \in Reqs :
        (/\ req[r].pc = "awaiting"
         /\ req[r].session_id # Undef
         /\ Activated(req[r].writes, req[r].session_id)
         /\ Overlapped(r, req[r].session_id)) =>
            sessions[req[r].session_id].status = "in_progress"

\* two review requests on "a": the first has returned its result and marked
\* "a" completed while the second still awaits the client
C34_Witness ==
    \E r \in Reqs :
        /\ req[r].pc = "awaiting"
        /\ req[r].session_id = "a"
        /\ req[r].writes = <<[op |-> "activate", id |-> "a", ok |-> TRUE]>>
        /\ ret.pc = "returned"
        /\ ret.session_id = "a"
        /\ ret.client = "ok"
        /\ AllOk(ret.writes)
        /\ sessions["a"].status = "completed"

Responses(sessionId, diff, client) ==
    IF diff \in DOMAIN DiffErrors
    THEN {[isError |-> DiffFailureResponse(DiffErrors[diff], sessionId).isError,
           text |-> DiffFailureResponse(DiffErrors[diff], sessionId).text]}
    ELSE IF client = "ok" THEN {[isError |-> FALSE, text |-> ResultText]}
    ELSE IF client = "err"
    THEN {[isError |-> TRUE, text |-> ErrorText(code, "message")] : code \in ClientErrorCodes}
    ELSE {[isError |-> TRUE, text |-> UnexpectedText("message")]}

\* C36: the response of a tool call (isError and text) is the one that the
\* session_id argument, the diff resolution and the client's outcome give,
\* whether there is no store, a store in any state, or a store whose
\* operations fail.
C36_ResponseIgnoresStore ==
    ret.pc = "returned" =>
        [isError |-> ret.isError, text |-> ret.text] \in
            Responses(ret.session_id, ret.diff, ret.client)

\* a successful review is returned although every store operation failed
C36_Witness ==
    /\ ret.pc = "returned"
    /\ ret.client = "ok"
    /\ db
    /\ Len(ret.writes) = 3
    /\ \A i \in 1..Len(ret.writes) : ~ret.writes[i].ok
    /\ ~ret.isError
    /\ ret.text = ResultText

----------------------------------------------------------------------------------------------------------------------------------------
(* More claims about the merged code review (SpecMerge) *)

\* C37: findings with file and line not null that differ in file, line or
\* category are not duplicates of each other: each of them has a survivor
\* with its own file, line and category in the merged findings.
C37_DistinctKeysSurvive ==
    (mPc = "done" /\ mKind = "code") =>
        LET in == AllFindings(mIn)
            out == mOut.findings
        IN \A i, k \in 1..Len(in) :
              (Keyed(in[i]) /\ Keyed(in[k]) /\ ~SameKey(in[i], in[k])) =>
                  \E j, l \in 1..Len(out) :
                      /\ j # l
                      /\ SameKey(out[j], in[i])
                      /\ SameKey(out[l], in[k])

\* ('a', 1, '2:c') and ('a:1', 2, 'c') are merged into one finding
C37_Witness ==
    /\ mPc = "done"
    /\ mKind = "code"
    /\ LET in == AllFindings(mIn)
       IN /\ Len(in) = 2
          /\ in[1].file = <<"a", ":", "1">> /\ in[1].line = 2
          /\ in[2].file = <<"a">> /\ in[2].line = 1
          /\ Len(mOut.findings) = 1

----------------------------------------------------------------------------------------------------------------------------------------
(* More claims about the chunker (SpecChunk) *)

FileCount(t) == Cardinality(LineStarts(t, "D"))

\* C38: for a positive maxTokens, every returned chunk that holds more than
\* one file section or more than one hunk is within maxTokens; only a chunk of
\* one file with at most one hunk may be over it.
C38_DivisibleChunkFits ==
    (cPc = "done" /\ cMax > 0) =>
        \A i \in 1..Len(cChunks) :
            (FileCount(cChunks[i]) > 1 \/ HunkCount(cChunks[i]) > 1) =>
                estimateTokens(cChunks[i]) <= cMax

\* one file of two hunks that ends with a newline: 21 characters, 6 tokens,
\* returned whole at maxTokens = 5
C38_Witness ==
    /\ cPc = "done"
    /\ cDiff = <<"D", "x", "N", "H", "N", "H", "N">>
    /\ cMax = 5
    /\ cChunks = <<cDiff>>
    /\ HunkCount(cChunks[1]) = 2
    /\ estimateTokens(cChunks[1]) = 6

Least(S) == CHOOSE a \in S : \A b \in S : a <= b

Greatest(S) == CHOOSE a \in S : \A b \in S : a >= b

\* the hunks of t in order: each runs from its marker up to the next hunk
\* marker or file header (or to the end of t, then it is the last one), and
\* has the header of the file section it stands in
Spans(t) ==
    LET hs == SortedSeq(LineStarts(t, "H"))
        ds == LineStarts(t, "D")
        bs == LineStarts(t, "H") \cup ds
        end(p) == IF \E b \in bs : b > p
                  THEN Least({b \in bs : b > p}) - 1 ELSE Len(t)
        file(p) == Greatest({b \in ds : b < p})
        first(p) == Least({h \in LineStarts(t, "H") : h > file(p)})
    IN [k \in 1..Len(hs) |->
           [header |-> StripNewline(SubSeq(t, file(hs[k]), first(hs[k]) - 1)),
            raw |-> SubSeq(t, hs[k], end(hs[k])),
            last |-> end(hs[k]) = Len(t)]]

SpansOf(chunks) == Flatten([i \in 1..Len(chunks) |-> Spans(chunks[i])])

\* C39: for a diff that begins with `diff --git ` and a positive maxTokens,
\* the hunks of the chunks, taken chunk after chunk, are the hunks of the diff
\* in their order, each under the header of its file and with the text it has
\* in the diff less one trailing newline.
C39_HunksOnceInOrder ==
    (cPc = "done" /\ cMax > 0 /\ StartsWith(cDiff, "D")) =>
        LET ds == Spans(cDiff)
            cs == SpansOf(cChunks)
        IN /\ Len(cs) = Len(ds)
           /\ \A k \in 1..Len(cs) :
                 /\ cs[k].header = ds[k].header
                 /\ \/ StripNewline(cs[k].raw) = StripNewline(ds[k].raw)
                    \/ cs[k].last /\ cs[k].raw = StripNewline(ds[k].raw)

\* a file of two hunks that ends with an empty line, split into one chunk per
\* hunk: the second chunk's hunk has lost the empty line
C39_Witness ==
    /\ cPc = "done"
    /\ cDiff = <<"D", "N", "H", "N", "H", "N", "N">>
    /\ cMax = 4
    /\ cChunks = <<<<"D", "N", "H">>, <<"D", "N", "H">>>>

----------------------------------------------------------------------------------------------------------------------------------------
(* More claims about reading input (SpecStdin) *)

\* the result the event `by` gives a read that has received `chunks` chunks
Decided(by, chunks) ==
    CASE by = "end" -> ReadOk(Concat(chunks))
      [] by = "error" -> StdinStreamError
      [] by = "timeout" -> IF chunks > 0 THEN ReadOk(Concat(chunks))
                           ELSE StdinTimeoutError

\* C40: a read of the stream that is not resolved has met no end, error or
\* timeout; the first of them resolves it, once, with the data received so
\* far, the error, or on timeout the data if any and else the timeout error;
\* the timeout comes only after a whole timeoutMs without data, every data
\* event restarting the timer; and no later event changes the result or
\* resolves the read again.
C40_ResolvedOnceByFirstEvent ==
    [][\A i \in 1..MaxReads :
         /\ rd[i].pc = "reading" =>
               /\ rd[i].resolves = 0
               /\ rd[i].seen \in {"none", "data"}
               /\ rd[i].armed
         /\ (rd[i].pc = "reading" /\ rd'[i].pc = "settled") =>
               /\ rd'[i].resolves = 1
               /\ rd'[i].by \in {"end", "error", "timeout"}
               /\ rd'[i].result = Decided(rd'[i].by, rd[i].chunks)
               /\ rd'[i].by = "timeout" => rd[i].quiet = TimeoutTicks
         /\ rd'[i].chunks # rd[i].chunks => rd'[i].armed /\ rd'[i].timer = 0
         /\ rd[i].pc = "settled" =>
               /\ rd'[i].pc = "settled"
               /\ rd'[i].result = rd[i].result
               /\ rd'[i].resolves = rd[i].resolves
               /\ rd'[i].by = rd[i].by]_vars

\* a read that 'end' resolved with no data, after which a 'data' event and
\* then an 'error' event arrived
C40_Witness ==
    /\ rd[1].pc = "settled"
    /\ rd[1].by = "end"
    /\ rd[1].result = ReadOk("")
    /\ rd[1].resolves = 1
    /\ rd[1].chunks = 1
    /\ rd[1].seen = "error"

====
